---- MODULE Spec2Model ----
(***************************************************************************)
(* A model of the weekly timesheet client (src/src/TimesheetApp.jsx):      *)
(* the staging area and its 40-hour rule, the durable collection (db),     *)
(* the remote table (timesheet_entries) and the requests in flight.        *)
(***************************************************************************)
EXTENDS Integers, Sequences, FiniteSets, TLC

\* ------------------------------------------------------------------ bounds
\* Steps (user actions, completions of remote calls, the notice's timer) of one
\* run of the client.
MaxOps == 5
\* Steps of one run of the staging area alone.
MaxStagingOps == 3
\* The number of steps of a run of the directory specification.
MaxDirOps == 8
\* The rows of a collection given to the dashboard, and its computations.
MaxDashRows == 3
MaxRenders == 2
\* Inputs of sumWeek: a cell holds one of the numbers 0..MaxCellHours (or 8).
MaxCellHours == 3
\* Steps of one run of the load specification.
MaxLoadOps == 4
\* Steps of one run of the specification of a commit during a load.
MaxRaceOps == 4
\* User actions of one run of the specification of the busy flags.
MaxLiveOps == 4
\* Inputs of the cap function: 0..MaxOther for the two totals, -MaxNeg..MaxCand
\* for the candidate.
MaxOther == 30
MaxNeg == 2
MaxCand == 26

\* ------------------------------------------------------- program constants
WeekCap == 40
DayMax == 24
DemoDayMax == 10

\* The five weekday columns (DAYS).
DAYS == <<"Mon", "Tue", "Wed", "Thu", "Fri">>
DaySet == {DAYS[i] : i \in 1..Len(DAYS)}

\* ---------------------------------------------------------------- values
\* A JavaScript cell value: a number, the empty string, the decimal text of
\* an integer, or some other (non-numeric) text.
Num(n) == [k |-> "num", n |-> n]
Str(n) == [k |-> "str", n |-> n]
Blank == [k |-> "blank", n |-> 0]
Junk == [k |-> "junk", n |-> 0]
\* A field the object does not have (undefined).
Missing == [k |-> "missing", n |-> 0]

Min(a, b) == IF a <= b THEN a ELSE b
Max(a, b) == IF a >= b THEN a ELSE b

\* Number(v) || 0 : a number or numeric text gives its value, "" gives 0,
\* other text and undefined give NaN, which || turns into 0.
NumberOr0(v) == IF v.k \in {"num", "str"} THEN v.n ELSE 0

\* parseInt(String(value), 10) with NaN replaced by 0 (updateEntry line 330).
ParseIntOr0(v) == IF v.k \in {"num", "str"} THEN v.n ELSE 0

\* String(n).padStart(2, "0") as the sequence of its decimal digits.
RECURSIVE Digits(_)
Digits(n) == IF n < 10 THEN <<n>> ELSE Digits(n \div 10) \o <<n % 10>>
toTwo(n) == IF n < 10 THEN <<0, n>> ELSE Digits(n)

\* ------------------------------------------------------------ pure utils
RECURSIVE SumOver(_, _, _)
SumOver(entry, days, i) ==
  IF i > Len(days) THEN 0
  ELSE NumberOr0(entry[days[i]]) + SumOver(entry, days, i + 1)

sumWeekAllDays(entry) == SumOver(entry, DAYS \o <<"Sat", "Sun">>, 1)

sumWeek(entry) == SumOver(entry, DAYS, 1)

allowedAfterCapNoFloor(otherRowsTotal, thisOtherDays, candidate) ==
  LET used == otherRowsTotal + thisOtherDays
      left == Max(0, WeekCap - used)
  IN  Min(left, candidate)

allowedAfterCapNoFloorLeft(otherRowsTotal, thisOtherDays, candidate) ==
  LET used == otherRowsTotal + thisOtherDays
      left == WeekCap - used
  IN  Min(left, Max(0, candidate))

allowedAfterCap(otherRowsTotal, thisOtherDays, candidate) ==
  LET used == otherRowsTotal + thisOtherDays
      left == Max(0, WeekCap - used)
  IN  Min(left, Max(0, candidate))

\* ----------------------------------------------------------------- state
VARIABLES
  entries,        \* the staging rows (useState entries)
  toast,          \* the notice shown ("" when none)
  configured,     \* supabase is not null
  person,         \* the selected person
  selectedYear,
  selectedWeek,
  db,             \* the durable collection (useState db)
  remote,         \* the rows of the remote table timesheet_entries
  saving,
  loadingWeek,
  previewPage,
  editingId,      \* <<>> for null, <<id>> otherwise
  editingValues,  \* <<>> for null, <<row>> otherwise
  net,            \* the remote requests in flight
  clock,          \* the number of commits so far (orders Created_At)
  ops,            \* the steps taken so far
  capO, capT, capC, capRes, capDone   \* one application of allowedAfterCap

\* The lookup lists and the directory view (Directory.jsx).
VARIABLES
  people, projects, bus,   \* the lists of the timesheet view (useState, lines 119-121)
  view,                    \* "timesheet" or "directory"
  lookup,                  \* the remote tables people, projects, business_units
  directory,               \* the Directory component's three lists
  dirLoading,              \* the Directory component's loading flag
  dirToast                 \* the Directory component's notice

\* The dashboard view (Dashboard.jsx): its input and what it computes.
VARIABLES
  dashDb,         \* the db prop: [isNull, rows]
  personFilter,
  projectFilter,
  tzWest,         \* the local time zone is behind UTC
  renders,        \* the number of times the dashboard has computed
  out,            \* what the last computation gave
  out1            \* what the first computation gave

\* One application of sumWeek.
VARIABLES
  sumEntry,       \* the argument
  sumRes,         \* what sumWeek returned
  sumDone

sumVars == <<sumEntry, sumRes, sumDone>>
\* The applications of the pure utils.
capVars == <<capO, capT, capC, capRes, capDone, sumVars>>
dashVars == <<dashDb, personFilter, projectFilter, tzWest, renders, out, out1>>
dirVars == <<people, projects, bus, view, lookup, directory, dirLoading, dirToast>>
\* What the timesheet handlers never touch.
otherVars == <<dirVars, dashVars>>
appVars == <<configured, person, selectedYear, selectedWeek, db, remote, saving,
             loadingWeek, previewPage, editingId, editingValues, net, clock>>
vars == <<entries, toast, appVars, capVars, ops, otherVars>>

\* --------------------------------------------------------- lists and inputs
\* People, projects and business units the lists hold (people[0] is first).
People == <<"A", "B">>
Projects == <<"P", "Q">>
Bus == <<"BU">>
Years == {2025}
Weeks == {2, 11}

\* What the user may type into a weekday cell of the staging table.
StageTexts == {Blank, Junk, Str(-2), Str(16), Str(30)}

\* ------------------------------------------------------------ staging area
RowIds == 1..(Max(MaxOps, MaxStagingOps) + 1)
UsedIds(es) == {es[i].id : i \in 1..Len(es)}
\* uid(): an id no staged row has.
uid(es) == CHOOSE x \in RowIds \ UsedIds(es) : \A y \in RowIds \ UsedIds(es) : x <= y

blankEntry(es) ==
  [id |-> uid(es), project |-> Projects[1], businessUnit |-> Bus[1],
   Mon |-> Blank, Tue |-> Blank, Wed |-> Blank, Thu |-> Blank, Fri |-> Blank,
   notes |-> ""]

RECURSIVE SumRows(_, _)
SumRows(es, i) == IF i > Len(es) THEN 0 ELSE sumWeek(es[i]) + SumRows(es, i + 1)
\* totalWeekHours (line 311)
totalWeekHours(es) == SumRows(es, 1)

\* otherRowsTotal (lines 332-333): the weekday hours of the rows with another id.
otherRowsTotalOf(es, id) ==
  totalWeekHours(SelectSeq(es, LAMBDA r : r.id # id))
\* thisOtherDays (line 334): the other four weekday cells of the row.
thisOtherDaysOf(e, field) ==
  SumOver(e, SelectSeq(DAYS, LAMBDA d : d # field), 1)
numericOfNoCeiling(value) == Max(0, ParseIntOr0(value))

\* numeric (lines 330-331)
numericOf(value) == Max(0, Min(DayMax, ParseIntOr0(value)))

capExceededThisRow(es, e, field, value) ==
  thisOtherDaysOf(e, field) + numericOf(value) > WeekCap

\* Whether the 40-hour branch of updateEntry is taken (line 336).
capExceeded(es, e, field, value) ==
  otherRowsTotalOf(es, e.id) + thisOtherDaysOf(e, field) + numericOf(value) > WeekCap

storedCellNoFloor(es, e, field, value) ==
  IF value = Blank THEN Blank
  ELSE IF capExceeded(es, e, field, value)
       THEN Num(WeekCap - (otherRowsTotalOf(es, e.id) + thisOtherDaysOf(e, field)))
       ELSE Num(numericOf(value))

\* The value updateEntry stores in row e's cell (lines 329-339).
storedCell(es, e, field, value) ==
  IF value = Blank THEN Blank
  ELSE IF capExceeded(es, e, field, value)
       THEN Num(Max(0, WeekCap - (otherRowsTotalOf(es, e.id) + thisOtherDaysOf(e, field))))
       ELSE Num(numericOf(value))

updateEntrySilent(id, field, value) ==
  /\ field \in DaySet
  /\ entries' = [i \in 1..Len(entries) |->
                   IF entries[i].id # id THEN entries[i]
                   ELSE [entries[i] EXCEPT ![field] =
                           storedCell(entries, entries[i], field, value)]]
  /\ UNCHANGED toast

updateEntry(id, field, value) ==
  /\ field \in DaySet
  /\ entries' = [i \in 1..Len(entries) |->
                   IF entries[i].id # id THEN entries[i]
                   ELSE [entries[i] EXCEPT ![field] =
                           storedCell(entries, entries[i], field, value)]]
  /\ toast' = IF \E i \in 1..Len(entries) :
                   /\ entries[i].id = id
                   /\ value # Blank
                   /\ capExceeded(entries, entries[i], field, value)
              THEN "cap" ELSE toast

\* updateEntry on a field that is not a weekday (line 340).
updateEntryField(id, field, value) ==
  /\ field \notin DaySet
  /\ entries' = [i \in 1..Len(entries) |->
                   IF entries[i].id # id THEN entries[i]
                   ELSE [entries[i] EXCEPT ![field] = value]]
  /\ UNCHANGED toast

addRow ==
  /\ entries' = Append(entries, blankEntry(entries))
  /\ UNCHANGED toast

removeRowAnyLength(id, ok) ==
  /\ entries' = IF ~ok THEN entries ELSE SelectSeq(entries, LAMBDA e : e.id # id)
  /\ UNCHANGED toast

\* removeRow (lines 346-355); ok is the answer to window.confirm.
removeRow(id, ok) ==
  /\ entries' = IF Len(entries) = 1 \/ ~ok THEN entries
                ELSE SelectSeq(entries, LAMBDA e : e.id # id)
  /\ UNCHANGED toast

duplicateRow(id) ==
  /\ \E i \in 1..Len(entries) :
       /\ entries[i].id = id
       /\ \A j \in 1..(i - 1) : entries[j].id # id
       /\ entries' = Append(entries, [entries[i] EXCEPT !.id = uid(entries)])
  /\ UNCHANGED toast

clearEntries ==
  /\ entries' = <<blankEntry(<<>>)>>
  /\ UNCHANGED toast

\* The timer of setToastMsg (line 305) clears the notice.
toastTimeout ==
  /\ toast # ""
  /\ toast' = ""
  /\ UNCHANGED entries

\* -------------------------------------------------------- rows and tables
\* The ID of a row: `${year}-${toTwo(isoWeek)}-${person}-${idx + 1}` (line 379),
\* kept as the tuple of its four parts.
rowID(year, isoWeek, p, idx) == <<year, toTwo(isoWeek), p, idx>>

\* format(start, "yyyy-MM-dd"): the Monday of that ISO week.
weekStartStr(year, isoWeek) == <<year, isoWeek, "Monday">>

\* The row appendToDatabase builds from staged row e at position idx
\* (lines 375-384).
stagedRow(e, idx, year, isoWeek, p, createdAt) ==
  LET mon == NumberOr0(e.Mon)
      tue == NumberOr0(e.Tue)
      wed == NumberOr0(e.Wed)
      thu == NumberOr0(e.Thu)
      fri == NumberOr0(e.Fri)
  IN  [ID |-> rowID(year, isoWeek, p, idx), Year |-> year, ISO_Week |-> isoWeek,
       Week_Start |-> weekStartStr(year, isoWeek), Person |-> p,
       Project |-> e.project, Business_Unit |-> e.businessUnit,
       Mon |-> Num(mon), Tue |-> Num(tue), Wed |-> Num(wed), Thu |-> Num(thu),
       Fri |-> Num(fri), Sat |-> Num(0), Sun |-> Num(0),
       Total |-> mon + tue + wed + thu + fri,
       Notes |-> e.notes, Created_At |-> createdAt]

\* The gate of line 377 on the total of line 376.
commitGateAll(total) == total >= 0

commitGate(total) == total > 0

RECURSIVE stagedRows(_, _, _, _, _, _)
stagedRows(es, idx, year, isoWeek, p, createdAt) ==
  IF idx > Len(es) THEN <<>>
  ELSE (IF commitGate(stagedRow(es[idx], idx, year, isoWeek, p, createdAt).Total)
        THEN <<stagedRow(es[idx], idx, year, isoWeek, p, createdAt)>>
        ELSE <<>>)
       \o stagedRows(es, idx + 1, year, isoWeek, p, createdAt)

mapToSupabase(row) ==
  [id |-> row.ID, year |-> row.Year, iso_week |-> row.ISO_Week,
   week_start |-> row.Week_Start, person |-> row.Person, project |-> row.Project,
   business_unit |-> row.Business_Unit,
   mon |-> row.Mon, tue |-> row.Tue, wed |-> row.Wed, thu |-> row.Thu,
   fri |-> row.Fri, sat |-> row.Sat, sun |-> row.Sun,
   notes |-> row.Notes, created_at |-> row.Created_At]

\* The payload of saveEditRow: the hours forced to numbers (lines 468-472).
editPayload(row) ==
  LET p == mapToSupabase(row)
  IN  [p EXCEPT !.mon = Num(NumberOr0(p.mon)), !.tue = Num(NumberOr0(p.tue)),
                !.wed = Num(NumberOr0(p.wed)), !.thu = Num(NumberOr0(p.thu)),
                !.fri = Num(NumberOr0(p.fri)), !.sat = Num(NumberOr0(p.sat)),
                !.sun = Num(NumberOr0(p.sun))]

\* A row of timesheet_entries as the table stores a payload: int columns, and
\* total generated from the five weekdays (migration lines 25-45).
tableRow(p) ==
  [id |-> p.id, year |-> p.year, iso_week |-> p.iso_week,
   week_start |-> p.week_start, person |-> p.person, project |-> p.project,
   business_unit |-> p.business_unit,
   mon |-> p.mon.n, tue |-> p.tue.n, wed |-> p.wed.n, thu |-> p.thu.n,
   fri |-> p.fri.n, sat |-> p.sat.n, sun |-> p.sun.n,
   total |-> p.mon.n + p.tue.n + p.wed.n + p.thu.n + p.fri.n,
   notes |-> p.notes, created_at |-> p.created_at]

mapFromSupabase(r) ==
  [ID |-> r.id, Year |-> r.year, ISO_Week |-> r.iso_week,
   Week_Start |-> r.week_start, Person |-> r.person, Project |-> r.project,
   Business_Unit |-> r.business_unit,
   Mon |-> Num(r.mon), Tue |-> Num(r.tue), Wed |-> Num(r.wed), Thu |-> Num(r.thu),
   Fri |-> Num(r.fri), Sat |-> Num(r.sat), Sun |-> Num(r.sun),
   Total |-> r.total, Notes |-> r.notes, Created_At |-> r.created_at]

SeqToSet(sq) == {sq[i] : i \in 1..Len(sq)}

\* upsert(payload, { onConflict: "id" }): a row with a payload's id is replaced.
tableUpsert(table, payload) ==
  {r \in table : \A i \in 1..Len(payload) : payload[i].id # r.id}
    \cup {tableRow(payload[i]) : i \in 1..Len(payload)}

\* update(payload).eq("id", id)
tableUpdate(table, id, p) ==
  {IF r.id = id THEN tableRow(p) ELSE r : r \in table}

\* delete().eq("id", id)
tableDelete(table, id) == {r \in table : r.id # id}

\* A set of table rows as the sequence .order("created_at", { ascending: false })
\* returns (rows of one commit in the order of their ids).
RECURSIVE orderDesc(_)
orderDesc(rows) ==
  IF rows = {} THEN <<>>
  ELSE LET first == CHOOSE r \in rows : \A q \in rows :
                      \/ r.created_at > q.created_at
                      \/ r.created_at = q.created_at /\ r.id[4] <= q.id[4]
       IN  <<first>> \o orderDesc(rows \ {first})

\* ------------------------------------------------------- requests in flight
Req(op, rows, id, row, year, week) ==
  [op |-> op, rows |-> rows, id |-> id, row |-> row, year |-> year, week |-> week]
upsertReq(rows) == Req("upsert", rows, <<>>, <<>>, 0, 0)
loadWeekReq(year, week) == Req("loadWeek", <<>>, <<>>, <<>>, year, week)
loadYearReq == Req("loadYear", <<>>, <<>>, <<>>, 0, 0)
deleteReq(id) == Req("delete", <<>>, id, <<>>, 0, 0)
updateReq(id, row) == Req("update", <<>>, id, <<row>>, 0, 0)

InFlight(op) == {r \in net : r.op = op}
\* ------------------------------------------------------------------ commit
\* The commit button (line 833) and appendToDatabase up to its await.
appendToDatabase ==
  /\ person # "" /\ totalWeekHours(entries) <= WeekCap /\ ~saving
  /\ LET rows == stagedRows(entries, 1, selectedYear, selectedWeek, person, clock + 1)
     IN  /\ db' = db \o rows
         /\ clock' = IF rows # <<>> THEN clock + 1 ELSE clock
         /\ IF configured /\ rows # <<>>
            THEN /\ saving' = TRUE
                 /\ net' = net \cup {upsertReq([i \in 1..Len(rows) |-> mapToSupabase(rows[i])])}
                 /\ UNCHANGED toast
            ELSE /\ toast' = "added"
                 /\ UNCHANGED <<saving, net>>
  /\ UNCHANGED <<entries, configured, person, selectedYear, selectedWeek, remote,
                 loadingWeek, previewPage, editingId, editingValues, capVars>>

\* The upsert succeeds (lines 398-399, 403).
upsertDone ==
  \E req \in InFlight("upsert") :
    /\ remote' = tableUpsert(remote, req.rows)
    /\ toast' = "saved"
    /\ saving' = FALSE
    /\ net' = net \ {req}
    /\ UNCHANGED <<entries, configured, person, selectedYear, selectedWeek, db,
                   loadingWeek, previewPage, editingId, editingValues, clock, capVars>>

\* The upsert fails (lines 400-403).
upsertFailedRetries ==
  \E req \in InFlight("upsert") :
    /\ toast' = "saveFailed"
    /\ UNCHANGED <<saving, net>>
    /\ UNCHANGED <<entries, configured, person, selectedYear, selectedWeek, db, remote,
                   loadingWeek, previewPage, editingId, editingValues, clock, capVars>>

upsertFailed ==
  \E req \in InFlight("upsert") :
    /\ toast' = "saveFailed"
    /\ saving' = FALSE
    /\ net' = net \ {req}
    /\ UNCHANGED <<entries, configured, person, selectedYear, selectedWeek, db, remote,
                   loadingWeek, previewPage, editingId, editingValues, clock, capVars>>

\* -------------------------------------------------------------------- loads
\* loadFromSupabaseForWeek to its await (lines 409-417); without a remote store
\* it shows a notice and returns (line 410).
loadFromSupabaseForWeek ==
  /\ IF configured
     THEN /\ loadingWeek' = TRUE
          /\ net' = net \cup {loadWeekReq(selectedYear, selectedWeek)}
          /\ UNCHANGED toast
     ELSE /\ toast' = "notConfigured"
          /\ UNCHANGED <<loadingWeek, net>>
  /\ UNCHANGED <<entries, configured, person, selectedYear, selectedWeek, db,
                 remote, saving, previewPage, editingId, editingValues, clock, capVars>>

loadWeekButtonNeverDisabled == configured /\ loadFromSupabaseForWeek

\* The load-week button (lines 641-651): rendered with a remote store only,
\* disabled while a load runs.
loadWeekButton == configured /\ ~loadingWeek /\ loadFromSupabaseForWeek

\* The load-year button (lines 652-675) to its await.
loadYear ==
  /\ configured /\ ~loadingWeek
  /\ loadingWeek' = TRUE
  /\ net' = net \cup {loadYearReq}
  /\ UNCHANGED <<entries, toast, configured, person, selectedYear, selectedWeek, db,
                 remote, saving, previewPage, editingId, editingValues, clock, capVars>>

loadDataSelectedAtCompletion(req) ==
  IF req.op = "loadWeek"
  THEN orderDesc({r \in remote : r.year = selectedYear /\ r.iso_week = selectedWeek})
  ELSE orderDesc(remote)

\* What the select of a load request returns.
loadData(req) ==
  IF req.op = "loadWeek"
  THEN orderDesc({r \in remote : r.year = req.year /\ r.iso_week = req.week})
  ELSE orderDesc(remote)

loadDone ==
  \E req \in InFlight("loadWeek") \cup InFlight("loadYear") :
    /\ db' = [i \in 1..Len(loadData(req)) |-> mapFromSupabase(loadData(req)[i])]
    /\ previewPage' = 1
    /\ toast' = IF req.op = "loadWeek" THEN "loaded" ELSE "loadedYear"
    /\ loadingWeek' = FALSE
    /\ net' = net \ {req}
    /\ UNCHANGED <<entries, configured, person, selectedYear, selectedWeek, remote,
                   saving, editingId, editingValues, clock, capVars>>

loadFailedDropsDb ==
  \E req \in InFlight("loadWeek") \cup InFlight("loadYear") :
    /\ toast' = IF req.op = "loadWeek" THEN "loadFailed" ELSE "loadYearFailed"
    /\ db' = <<>>
    /\ loadingWeek' = FALSE
    /\ net' = net \ {req}
    /\ UNCHANGED <<entries, configured, person, selectedYear, selectedWeek, remote,
                   saving, previewPage, editingId, editingValues, clock, capVars>>

\* The select fails (lines 424-427, 669-673).
loadFailed ==
  \E req \in InFlight("loadWeek") \cup InFlight("loadYear") :
    /\ toast' = IF req.op = "loadWeek" THEN "loadFailed" ELSE "loadYearFailed"
    /\ loadingWeek' = FALSE
    /\ net' = net \ {req}
    /\ UNCHANGED <<entries, configured, person, selectedYear, selectedWeek, db, remote,
                   saving, previewPage, editingId, editingValues, clock, capVars>>

\* ------------------------------------------------------------------ delete
dbIDs == {db[i].ID : i \in 1..Len(db)}

deleteDbRow(rowId) ==
  /\ rowId \in dbIDs
  /\ IF configured
     THEN /\ net' = net \cup {deleteReq(rowId)}
          /\ UNCHANGED <<db, toast>>
     ELSE /\ db' = SelectSeq(db, LAMBDA r : r.ID # rowId)
          /\ toast' = "removed"
          /\ UNCHANGED net
  /\ UNCHANGED <<entries, configured, person, selectedYear, selectedWeek, remote, saving,
                 loadingWeek, previewPage, editingId, editingValues, clock, capVars>>

deleteDone ==
  \E req \in InFlight("delete") :
    /\ remote' = tableDelete(remote, req.id)
    /\ db' = SelectSeq(db, LAMBDA r : r.ID # req.id)
    /\ toast' = "removed"
    /\ net' = net \ {req}
    /\ UNCHANGED <<entries, configured, person, selectedYear, selectedWeek, saving,
                   loadingWeek, previewPage, editingId, editingValues, clock, capVars>>

deleteFailed ==
  \E req \in InFlight("delete") :
    /\ toast' = "removeFailed"
    /\ net' = net \ {req}
    /\ UNCHANGED <<entries, configured, person, selectedYear, selectedWeek, db, remote,
                   saving, loadingWeek, previewPage, editingId, editingValues, clock,
                   capVars>>

\* The "clear preview" button (line 1012).
clearDb ==
  /\ db' = <<>>
  /\ UNCHANGED <<entries, toast, configured, person, selectedYear, selectedWeek, remote,
                 saving, loadingWeek, previewPage, editingId, editingValues, net, clock,
                 capVars>>

\* ------------------------------------------------- editing a committed row
\* What the user may type into a weekday cell of the row editor.
EditTexts == {Blank, Str(8), Str(30)}
\* The weekday cells the user edits in the row editor.
EditDays == {"Mon", "Fri"}

\* The editor is rendered for the db rows whose ID is editingId (line 1061).
editorShown == editingId # <<>> /\ editingValues # <<>> /\ editingId[1] \in dbIDs

startEditRow(i) ==
  /\ i \in 1..Len(db)
  /\ editingId # <<db[i].ID>>
  /\ editingId' = <<db[i].ID>>
  /\ editingValues' = <<db[i]>>
  /\ UNCHANGED <<entries, toast, configured, person, selectedYear, selectedWeek, db,
                 remote, saving, loadingWeek, previewPage, net, clock, capVars>>

cancelEditRow ==
  /\ editorShown
  /\ editingId' = <<>>
  /\ editingValues' = <<>>
  /\ UNCHANGED <<entries, toast, configured, person, selectedYear, selectedWeek, db,
                 remote, saving, loadingWeek, previewPage, net, clock, capVars>>

changeEditing(field, value) ==
  /\ editorShown
  /\ editingValues' = <<[editingValues[1] EXCEPT ![field] = value]>>
  /\ UNCHANGED <<entries, toast, configured, person, selectedYear, selectedWeek, db,
                 remote, saving, loadingWeek, previewPage, editingId, net, clock, capVars>>

\* setDb of line 479: every row with the edited ID becomes the edited values.
editedDbOthersToo(rows, id, values) ==
  [i \in 1..Len(rows) |-> [values EXCEPT !.ID = rows[i].ID]]

editedDb(rows, id, values) ==
  [i \in 1..Len(rows) |-> IF rows[i].ID = id THEN values ELSE rows[i]]

\* The save button of the editor and saveEditRow up to its await.
saveEditRow ==
  /\ editorShown
  /\ IF configured
     THEN /\ net' = net \cup {updateReq(editingId[1], editingValues[1])}
          /\ UNCHANGED <<db, toast, editingId, editingValues>>
     ELSE /\ db' = editedDb(db, editingId[1], editingValues[1])
          /\ toast' = "updated"
          /\ editingId' = <<>>
          /\ editingValues' = <<>>
          /\ UNCHANGED net
  /\ UNCHANGED <<entries, configured, person, selectedYear, selectedWeek, remote, saving,
                 loadingWeek, previewPage, clock, capVars>>

saveEditDone ==
  \E req \in InFlight("update") :
    /\ remote' = tableUpdate(remote, req.id, editPayload(req.row[1]))
    /\ db' = editedDb(db, req.id, req.row[1])
    /\ toast' = "updated"
    /\ editingId' = <<>>
    /\ editingValues' = <<>>
    /\ net' = net \ {req}
    /\ UNCHANGED <<entries, configured, person, selectedYear, selectedWeek, saving,
                   loadingWeek, previewPage, clock, capVars>>

saveEditFailed ==
  \E req \in InFlight("update") :
    /\ toast' = "updateFailed"
    /\ net' = net \ {req}
    /\ UNCHANGED <<entries, configured, person, selectedYear, selectedWeek, db, remote,
                   saving, loadingWeek, previewPage, editingId, editingValues, clock,
                   capVars>>

\* --------------------------------------------------------- person and week
setPerson(p) ==
  /\ person' = p
  /\ UNCHANGED <<entries, toast, configured, selectedYear, selectedWeek, db, remote,
                 saving, loadingWeek, previewPage, editingId, editingValues, net, clock,
                 capVars>>

setSelectedWeek(w) ==
  /\ selectedWeek' = w
  /\ UNCHANGED <<entries, toast, configured, person, selectedYear, db, remote,
                 saving, loadingWeek, previewPage, editingId, editingValues, net, clock,
                 capVars>>

setSelectedYear(y) ==
  /\ selectedYear' = y
  /\ UNCHANGED <<entries, toast, configured, person, selectedWeek, db, remote,
                 saving, loadingWeek, previewPage, editingId, editingValues, net, clock,
                 capVars>>

\* ---------------------------------------------------------------- demo data
\* The weeks before today generateDemoData covers: 0 .. weeksCount - 1 in the
\* code, where the buttons pass 52.
DemoWeekOffsets == <<0>>
\* The ISO week of new Date().
Today == [year |-> 2025, week |-> 11]
\* What mulberry32 may return, in hundredths, draw after draw (a tape is read
\* cyclically): one tape gives a single line of 40 hours, the other two lines.
DemoTapes == {<<10, 95, 50, 5, 30, 60, 10, 10, 50>>,
              <<40, 50, 50, 50, 50, 50, 50, 90, 10, 50>>}

rng(tape, pos) == tape[((pos - 1) % Len(tape)) + 1]
rndInt(tape, pos, min, max) == ((rng(tape, pos) * (max - min + 1)) \div 100) + min
pick(tape, pos, arr) ==
  IF Len(arr) = 0 THEN "" ELSE arr[((rng(tape, pos) * Len(arr)) \div 100) + 1]

\* distributeWeek (lines 246-255) reading four draws from pos on: the first four
\* days draw from 0..min(10, rest) and Friday takes the rest, which leaves
\* nothing for the loop of line 253.
distributeWeek(tape, pos, total) ==
  LET mon == rndInt(tape, pos, 0, Min(DemoDayMax, total))
      r1 == total - mon
      tue == rndInt(tape, pos + 1, 0, Min(DemoDayMax, r1))
      r2 == r1 - tue
      wed == rndInt(tape, pos + 2, 0, Min(DemoDayMax, r2))
      r3 == r2 - wed
      thu == rndInt(tape, pos + 3, 0, Min(DemoDayMax, r3))
      fri == r3 - thu
  IN  [Mon |-> mon, Tue |-> tue, Wed |-> wed, Thu |-> thu, Fri |-> fri]

\* The lines of one person and week from line i on (lines 269-289).
RECURSIVE demoLines(_, _, _, _, _, _, _, _, _)
demoLines(tape, pos, i, lines, remaining, p, year, isoWeek, createdAt) ==
  IF i >= lines THEN <<>>
  ELSE LET last == (i = lines - 1)
           share == IF last THEN remaining
                    ELSE Max(0, Min(remaining,
                                    (remaining \div (lines - i)) + rndInt(tape, pos, -2, 2)))
           dpos == IF last THEN pos ELSE pos + 1
           dist == distributeWeek(tape, dpos, share)
           total == dist.Mon + dist.Tue + dist.Wed + dist.Thu + dist.Fri
           row == [ID |-> rowID(year, isoWeek, p, i + 1), Year |-> year,
                   ISO_Week |-> isoWeek, Week_Start |-> weekStartStr(year, isoWeek),
                   Person |-> p, Project |-> pick(tape, dpos + 4, Projects),
                   Business_Unit |-> pick(tape, dpos + 5, Bus),
                   Mon |-> Num(dist.Mon), Tue |-> Num(dist.Tue), Wed |-> Num(dist.Wed),
                   Thu |-> Num(dist.Thu), Fri |-> Num(dist.Fri),
                   Sat |-> Num(0), Sun |-> Num(0), Total |-> total,
                   Notes |-> IF rng(tape, dpos + 6) < 8 THEN "ajuste" ELSE "",
                   Created_At |-> createdAt]
       IN  IF total = 0
           THEN demoLines(tape, dpos + 4, i + 1, lines, remaining - share, p, year,
                          isoWeek, createdAt)
           ELSE <<row>> \o demoLines(tape, dpos + 7, i + 1, lines, remaining - share, p,
                                     year, isoWeek, createdAt)

\* The rows of person p for the w-th covered week and those after it (lines 260-290).
RECURSIVE demoWeeksOf(_, _, _, _)
demoWeeksOf(tape, p, w, createdAt) ==
  IF w > Len(DemoWeekOffsets) THEN <<>>
  ELSE demoLines(tape, 3, 0, rndInt(tape, 1, 1, 3), rndInt(tape, 2, 32, 40), p,
                 Today.year, Today.week - DemoWeekOffsets[w], createdAt)
       \o demoWeeksOf(tape, p, w + 1, createdAt)

RECURSIVE demoRows(_, _, _)
demoRows(tape, k, createdAt) ==
  IF k > Len(People) THEN <<>>
  ELSE demoWeeksOf(tape, People[k], 1, createdAt) \o demoRows(tape, k + 1, createdAt)

generateDemoData(tape) ==
  /\ db' = demoRows(tape, 1, clock)
  /\ previewPage' = 1
  /\ toast' = "demo"
  /\ UNCHANGED <<entries, configured, person, selectedYear, selectedWeek, remote, saving,
                 loadingWeek, editingId, editingValues, net, clock, capVars>>

\* ------------------------------------------------- lookup lists, directory
Tables == {"people", "projects", "business_units"}

\* The names the lookup tables may hold, in the order of .order("name").
NameOrder == <<"A", "B", "BU", "P", "Q">>

item(id, name) == [id |-> id, name |-> name]

\* select("id, name").order("name", { ascending: true }) (Directory.jsx 161-163)
orderItems(rows) ==
  LET names == SelectSeq(NameOrder, LAMBDA n : \E x \in rows : x.name = n)
  IN  [i \in 1..Len(names) |-> CHOOSE x \in rows : x.name = names[i]]

\* select("name").order("name"), then map to the name (lines 208-215).
orderNames(rows) == [i \in 1..Len(orderItems(rows)) |-> orderItems(rows)[i].name]

noLists == [t \in Tables |-> <<>>]

loadAllReq == Req("loadAll", <<>>, <<>>, <<>>, 0, 0)
loadListsReq == Req("loadLists", <<>>, <<>>, <<>>, 0, 0)
deleteItemReq(table, id) == Req("deleteItem", <<>>, <<table, id>>, <<>>, 0, 0)

\* What a step of the Directory component or of loadLists leaves alone.
dirFrame ==
  UNCHANGED <<entries, toast, configured, selectedYear, selectedWeek, db, remote, saving,
              loadingWeek, previewPage, editingId, editingValues, clock, capVars,
              dashVars>>

\* setView('directory'): Directory mounts and its effect runs loadAll
\* (Directory.jsx 144-149, 156-158, 178).
openDirectory ==
  /\ view # "directory"
  /\ view' = "directory"
  /\ directory' = noLists
  /\ dirToast' = ""
  /\ IF configured
     THEN dirLoading' = TRUE /\ net' = net \cup {loadAllReq}
     ELSE dirLoading' = FALSE /\ UNCHANGED net
  /\ UNCHANGED <<people, projects, bus, lookup, person>>
  /\ dirFrame

\* setView('timesheet'): Directory unmounts and its state is gone.
closeDirectory ==
  /\ view = "directory"
  /\ view' = "timesheet"
  /\ directory' = noLists
  /\ dirLoading' = FALSE
  /\ dirToast' = ""
  /\ UNCHANGED <<people, projects, bus, lookup, person, net>>
  /\ dirFrame

\* loadAll after its await, success (Directory.jsx 165-168, 173-174).
loadAllDone ==
  \E req \in InFlight("loadAll") :
    /\ net' = net \ {req}
    /\ IF view = "directory"
       THEN /\ directory' = [t \in Tables |-> orderItems(lookup[t])]
            /\ dirLoading' = FALSE
       ELSE UNCHANGED <<directory, dirLoading>>
    /\ UNCHANGED <<people, projects, bus, view, lookup, dirToast, person>>
    /\ dirFrame

\* loadAll after its await, failure (Directory.jsx 169-174).
loadAllFailed ==
  \E req \in InFlight("loadAll") :
    /\ net' = net \ {req}
    /\ IF view = "directory"
       THEN dirToast' = "loadFailed" /\ dirLoading' = FALSE
       ELSE UNCHANGED <<dirToast, dirLoading>>
    /\ UNCHANGED <<people, projects, bus, view, lookup, directory, person>>
    /\ dirFrame

\* The delete button of a directory row (Directory.jsx 128-131, disabled 195)
\* and onDelete up to the await of deleteItem (lines 190-191, 229-231).
deleteItem(table, it) ==
  /\ view = "directory" /\ configured /\ ~dirLoading
  /\ it \in SeqToSet(directory[table])
  /\ net' = net \cup {deleteItemReq(table, it.id)}
  /\ UNCHANGED <<dirVars, person>>
  /\ dirFrame

deleteItemDoneCascade ==
  \E req \in InFlight("deleteItem") :
    LET table == req.id[1]
        id == req.id[2]
        gone == {x.name : x \in {y \in lookup[table] : y.id = id}}
    IN  /\ lookup' = [lookup EXCEPT ![table] = {x \in @ : x.id # id}]
        /\ remote' = {r \in remote : r.person \notin gone}
        /\ db' = SelectSeq(db, LAMBDA r : r.Person \notin gone)
        /\ directory' = directory
        /\ net' = (net \ {req}) \cup {loadListsReq}
        /\ dirToast' = "deleted"
        /\ UNCHANGED <<people, projects, bus, view, dirLoading, person>>
        /\ UNCHANGED <<entries, toast, configured, selectedYear, selectedWeek, saving,
                       loadingWeek, previewPage, editingId, editingValues, clock, capVars,
                       dashVars>>

\* The delete succeeds: the list loses the item, onListsChanged runs loadLists
\* up to its await (TimesheetApp.jsx 204-211), the notice is shown
\* (Directory.jsx 232-234, 263-265, 294-296).
deleteItemDone ==
  \E req \in InFlight("deleteItem") :
    LET table == req.id[1]
        id == req.id[2]
    IN  /\ lookup' = [lookup EXCEPT ![table] = {x \in @ : x.id # id}]
        /\ directory' = IF view = "directory"
                        THEN [directory EXCEPT
                                ![table] = SelectSeq(@, LAMBDA x : x.id # id)]
                        ELSE directory
        /\ net' = (net \ {req}) \cup {loadListsReq}
        /\ dirToast' = IF view = "directory" THEN "deleted" ELSE dirToast
        /\ UNCHANGED <<people, projects, bus, view, dirLoading, person>>
        /\ dirFrame

\* The delete fails (Directory.jsx 192, 235, 266, 297).
deleteItemFailed ==
  \E req \in InFlight("deleteItem") :
    /\ net' = net \ {req}
    /\ dirToast' = IF view = "directory" THEN "deleteFailed" ELSE dirToast
    /\ UNCHANGED <<people, projects, bus, view, lookup, directory, dirLoading, person>>
    /\ dirFrame

\* loadLists after its await, success (TimesheetApp.jsx 212-218), and the
\* effect that keeps the selected person valid (lines 227-232).
loadListsDone ==
  \E req \in InFlight("loadLists") :
    LET ppl == orderNames(lookup["people"])
        projs == orderNames(lookup["projects"])
        busList == orderNames(lookup["business_units"])
    IN  /\ net' = net \ {req}
        /\ people' = IF ppl # <<>> THEN ppl ELSE people
        /\ projects' = IF projs # <<>> THEN projs ELSE projects
        /\ bus' = IF busList # <<>> THEN busList ELSE bus
        /\ person' = IF ppl # <<>> /\ person \notin SeqToSet(ppl) THEN ppl[1] ELSE person
        /\ UNCHANGED <<view, lookup, directory, dirLoading, dirToast>>
        /\ dirFrame

\* loadLists after its await, failure (TimesheetApp.jsx 219-222).
loadListsFailed ==
  \E req \in InFlight("loadLists") :
    /\ net' = net \ {req}
    /\ UNCHANGED <<dirVars, person>>
    /\ dirFrame

\* ---------------------------------------------------- texts, dates, Maps
\* A text is the sequence of its characters.
DigitChars == <<"0", "1", "2", "3", "4", "5", "6", "7", "8", "9">>
\* The characters in use, in the order both localeCompare and the default
\* sort give them.
CharOrder == <<"-">> \o DigitChars \o <<"W", "x">>

charRank(c) == CHOOSE i \in 1..Len(CharOrder) : CharOrder[i] = c

RECURSIVE textLess(_, _)
\* a sorts before b.
textLess(a, b) ==
  IF b = <<>> THEN FALSE
  ELSE IF a = <<>> THEN TRUE
  ELSE IF a[1] # b[1] THEN charRank(a[1]) < charRank(b[1])
  ELSE textLess(Tail(a), Tail(b))

\* String(n) of a natural number.
numText(n) == [i \in 1..Len(Digits(n)) |-> DigitChars[Digits(n)[i] + 1]]

\* t.padStart(n, "0")
padStart(t, n) == [i \in 1..(n - Len(t)) |-> "0"] \o t

\* hay.includes(needle)
includes(hay, needle) ==
  \E i \in 1..(Len(hay) - Len(needle) + 1) : SubSeq(hay, i, i + Len(needle) - 1) = needle

\* k.split("-W")[1] of a week key.
afterDashW(k) ==
  LET at == CHOOSE i \in 1..(Len(k) - 1) :
              /\ k[i] = "-" /\ k[i + 1] = "W"
              /\ \A j \in 1..(i - 1) : ~(k[j] = "-" /\ k[j + 1] = "W")
  IN  SubSeq(k, at + 2, Len(k))

\* format(date, "yyyy-MM-dd")
dateText(y, m, d) ==
  padStart(numText(y), 4) \o <<"-">> \o padStart(numText(m), 2) \o <<"-">>
    \o padStart(numText(d), 2)

isDigit(c) == \E i \in 1..Len(DigitChars) : DigitChars[i] = c
digitOf(c) == (CHOOSE i \in 1..Len(DigitChars) : DigitChars[i] = c) - 1

RECURSIVE numOf(_)
numOf(t) == IF t = <<>> THEN 0 ELSE 10 * numOf(SubSeq(t, 1, Len(t) - 1)) + digitOf(t[Len(t)])

\* !isNaN(new Date(t)) for the texts in use: a date-only ISO text.
isDateText(t) ==
  /\ Len(t) = 10 /\ t[5] = "-" /\ t[8] = "-"
  /\ \A i \in {1, 2, 3, 4, 6, 7, 9, 10} : isDigit(t[i])
  /\ numOf(SubSeq(t, 6, 7)) \in 1..12
  /\ numOf(SubSeq(t, 9, 10)) \in 1..31

\* new Date(t) reads a date-only text as midnight UTC; getFullYear and
\* getMonth give the local date, the day before when the zone is behind UTC.
localYearMonth(t, west) ==
  LET y == numOf(SubSeq(t, 1, 4))
      m == numOf(SubSeq(t, 6, 7))
      d == numOf(SubSeq(t, 9, 10))
  IN  IF ~west \/ d > 1 THEN [y |-> y, m |-> m]
      ELSE IF m > 1 THEN [y |-> y, m |-> m - 1]
      ELSE [y |-> y - 1, m |-> 12]

\* A Map, as the sequence of its [k, v] entries in insertion order.
kvIndex(map, k) ==
  IF \E i \in 1..Len(map) : map[i].k = k
  THEN CHOOSE i \in 1..Len(map) : map[i].k = k
  ELSE 0
kvHas(map, k) == kvIndex(map, k) # 0
kvGet(map, k, default) == IF kvHas(map, k) THEN map[kvIndex(map, k)].v ELSE default
kvSet(map, k, v) ==
  IF kvHas(map, k) THEN [map EXCEPT ![kvIndex(map, k)].v = v]
  ELSE Append(map, [k |-> k, v |-> v])

\* items in ascending order of their keys, equal keys in their given order
\* (Array.prototype.sort is stable).
sortedBy(items, keys) ==
  [n \in 1..Len(items) |->
     items[CHOOSE i \in 1..Len(items) :
             Cardinality({j \in 1..Len(items) :
                            keys[j] < keys[i] \/ (keys[j] = keys[i] /\ j < i)}) = n - 1]]

\* The rank of each text among the texts: the number of texts before it.
textRanks(ts) ==
  [i \in 1..Len(ts) |-> Cardinality({j \in 1..Len(ts) : textLess(ts[j], ts[i])})]

RECURSIVE SumSeq(_)
SumSeq(ns) == IF ns = <<>> THEN 0 ELSE ns[1] + SumSeq(Tail(ns))

\* ---------------------------------------------------------------- dashboard
\* ------------------------------------------- numbers as the engine holds them
\* A JS number is an IEEE-754 double: 53 significant bits.  A positive double
\* is kept as [m, e]: m its 53 significant bits, most significant (a 1) first,
\* e the exponent of the last bit; its value is m * 2^e.
Significand == 53

RECURSIVE DivBits(_, _, _)
\* The next n bits of the binary expansion of r / t, for 0 <= r < t.
DivBits(r, t, n) ==
  IF n = 0 THEN <<>>
  ELSE IF 2 * r >= t THEN <<1>> \o DivBits(2 * r - t, t, n - 1)
       ELSE <<0>> \o DivBits(2 * r, t, n - 1)

RECURSIVE DivRem(_, _, _)
\* The remainder left after those n bits.
DivRem(r, t, n) ==
  IF n = 0 THEN r
  ELSE IF 2 * r >= t THEN DivRem(2 * r - t, t, n - 1) ELSE DivRem(2 * r, t, n - 1)

RECURSIVE Incr(_)
\* bits + 1 (most significant bit first); a carry out of the top lengthens it.
Incr(bits) ==
  IF bits = <<>> THEN <<1>>
  ELSE IF bits[Len(bits)] = 0 THEN SubSeq(bits, 1, Len(bits) - 1) \o <<1>>
       ELSE LET up == Incr(SubSeq(bits, 1, Len(bits) - 1))
            IN  up \o <<0>>

\* Round-to-nearest, ties-to-even, of the bits (first bit 1, last bit of
\* exponent e) to 53 significant bits; sticky tells of non-zero bits beyond.
roundToDouble(bits, e, sticky) ==
  IF Len(bits) <= Significand
  THEN [m |-> bits \o [i \in 1..(Significand - Len(bits)) |-> 0],
        e |-> e - (Significand - Len(bits))]
  ELSE LET keep == SubSeq(bits, 1, Significand)
           rest == SubSeq(bits, Significand + 1, Len(bits))
           drop == Len(rest)
           half == rest[1] = 1
           more == sticky \/ \E i \in 2..drop : rest[i] = 1
           up == half /\ (more \/ keep[Significand] = 1)
           kept == IF up THEN Incr(keep) ELSE keep
       IN  IF Len(kept) > Significand
           THEN [m |-> SubSeq(kept, 1, Significand), e |-> e + drop + 1]
           ELSE [m |-> kept, e |-> e + drop]

RECURSIVE Shift(_, _, _)
\* The least k with h * 2^k >= t.
Shift(h, t, k) == IF h >= t THEN k ELSE Shift(2 * h, t, k + 1)

RECURSIVE Pow2(_)
Pow2(n) == IF n = 0 THEN 1 ELSE 2 * Pow2(n - 1)

\* hours / total as a double, for 0 < hours <= total.
fdiv(h, t) ==
  LET k == Shift(h, t, 0)
      r == h * Pow2(k) - t
      bits == <<1>> \o DivBits(r, t, Significand)
  IN  roundToDouble(bits, -k - Significand, DivRem(r, t, Significand) # 0)

RECURSIVE MulLsb(_, _, _, _)
\* bits (least significant first) times k, least significant bit first.
MulLsb(bits, k, i, carry) ==
  IF i > Len(bits)
  THEN IF carry = 0 THEN <<>> ELSE <<carry % 2>> \o MulLsb(bits, k, i, carry \div 2)
  ELSE LET s == bits[i] * k + carry
       IN  <<s % 2>> \o MulLsb(bits, k, i + 1, s \div 2)

Reverse(sq) == [i \in 1..Len(sq) |-> sq[Len(sq) + 1 - i]]

\* x * k as a double, for a positive double x and a small natural k.
fmul(x, k) == roundToDouble(Reverse(MulLsb(Reverse(x.m), k, 1, 0)), x.e, FALSE)

RECURSIVE BitsValue(_, _)
BitsValue(bits, n) == IF n = 0 THEN 0 ELSE 2 * BitsValue(bits, n - 1) + bits[n]

\* Math.round of a positive double below 2^30: the nearest integer, a half up.
MathRound(x) ==
  LET frac == -x.e                      \* the number of fractional bits
      ints == Significand - frac        \* the number of integer bits
  IN  IF frac <= 0 THEN BitsValue(x.m, Significand) * Pow2(-frac)
      ELSE IF ints < 0 THEN 0
      ELSE BitsValue(x.m, ints) + x.m[ints + 1]

\* total ? Math.round((hours / total) * 100) : 0   (Dashboard.jsx line 198)
pct(hours, total) ==
  IF total = 0 THEN 0
  ELSE IF hours = 0 THEN 0
  ELSE MathRound(fmul(fdiv(hours, total), 100))

\* A row as the dashboard reads it.  isNull marks a null row, whose fields all
\* read as missing through r?.x; a plain r.x of a null row raises.  Names are
\* "" when missing, Year and ISO_Week 0 when missing, Week_Start is a text
\* (<<>> when missing), Total a cell value.
dashRow(p, pr, bu, year, isoWeek, weekStart, total) ==
  [isNull |-> FALSE, Person |-> p, Project |-> pr, Business_Unit |-> bu, Year |-> year,
   ISO_Week |-> isoWeek, Week_Start |-> weekStart, Total |-> total]

NullRow ==
  [isNull |-> TRUE, Person |-> "", Project |-> "", Business_Unit |-> "", Year |-> 0,
   ISO_Week |-> 0, Week_Start |-> <<>>, Total |-> Blank]

\* The bucket of missing and empty values.
Sentinel == "-"

\* The result of a computation that threw, and of one that returned v.
Raised == [raised |-> TRUE, value |-> <<>>]
Returned(v) == [raised |-> FALSE, value |-> <<v>>]
valueOf(res) == res.value[1]

\* rows || []
orEmpty(coll) == IF coll.isNull THEN <<>> ELSE coll.rows

\* The position of the bucket called name in the Map, 0 when absent.
mapIndex(map, name) ==
  IF \E i \in 1..Len(map) : map[i].name = name
  THEN CHOOSE i \in 1..Len(map) : map[i].name = name
  ELSE 0

RECURSIVE groupLoop(_, _, _, _)
\* The loop of groupTotals (lines 5-13) from row i on.
groupLoop(rows, key, i, map) ==
  IF i > Len(rows) THEN map
  ELSE LET r == rows[i]
           groupKey == IF r[key] # "" THEN r[key] ELSE Sentinel
           total == NumberOr0(r.Total)
           at == mapIndex(map, groupKey)
           agg == IF at # 0 THEN map[at]
                  ELSE [name |-> groupKey, total |-> 0, people |-> {}, projects |-> {}]
           next == [agg EXCEPT !.total = @ + total,
                               !.people = IF r.Person # "" THEN @ \cup {r.Person} ELSE @,
                               !.projects = IF r.Project # "" THEN @ \cup {r.Project} ELSE @]
       IN  groupLoop(rows, key, i + 1,
                     IF at # 0 THEN [map EXCEPT ![at] = next] ELSE Append(map, next))

groupTotalsDropsZero(rows, key) ==
  LET kept == SelectSeq(orEmpty(rows), LAMBDA r : NumberOr0(r.Total) # 0)
      map == groupLoop(kept, key, 1, <<>>)
  IN  [i \in 1..Len(map) |->
         [name |-> map[i].name, total |-> map[i].total,
          peopleCount |-> Cardinality(map[i].people),
          projectsCount |-> Cardinality(map[i].projects)]]

groupTotalsCountsRows(rows, key) ==
  LET map == groupLoop(orEmpty(rows), key, 1, <<>>)
  IN  [i \in 1..Len(map) |->
         [name |-> map[i].name, total |-> map[i].total,
          peopleCount |-> Cardinality({j \in 1..Len(orEmpty(rows)) :
                              (IF orEmpty(rows)[j][key] # "" THEN orEmpty(rows)[j][key]
                               ELSE Sentinel) = map[i].name}),
          projectsCount |-> Cardinality(map[i].projects)]]

groupTotals(rows, key) ==
  LET map == groupLoop(orEmpty(rows), key, 1, <<>>)
  IN  [i \in 1..Len(map) |->
         [name |-> map[i].name, total |-> map[i].total,
          peopleCount |-> Cardinality(map[i].people),
          projectsCount |-> Cardinality(map[i].projects)]]

\* The keys the dashboard groups by (lines 103-114).
GroupKeys == {"Person", "Project", "Business_Unit"}

\* filteredDb (lines 96-101): r.Person of a null row raises.
filteredDb(coll, pf, prf) ==
  LET rows == orEmpty(coll)
  IN  IF (pf # "" \/ prf # "") /\ \E i \in 1..Len(rows) : rows[i].isNull
      THEN Raised
      ELSE Returned(SelectSeq(rows, LAMBDA r : /\ (pf # "" => r.Person = pf)
                                                /\ (prf # "" => r.Project = prf)))

\* toWeekKey (lines 116-122)
toWeekKey(row, west) ==
  IF row.Week_Start # <<>> /\ isDateText(row.Week_Start)
  THEN numText(localYearMonth(row.Week_Start, west).y) \o <<"-", "W">>
         \o padStart(numText(row.ISO_Week), 2)
  ELSE padStart(IF row.Year # 0 THEN numText(row.Year) ELSE <<>>, 4) \o <<"-", "W">>
         \o padStart(IF row.ISO_Week # 0 THEN numText(row.ISO_Week) ELSE <<>>, 2)

\* toMonthKey (lines 123-128)
toMonthKey(row, west) ==
  IF row.Week_Start # <<>> /\ isDateText(row.Week_Start)
  THEN numText(localYearMonth(row.Week_Start, west).y) \o <<"-">>
         \o padStart(numText(localYearMonth(row.Week_Start, west).m), 2)
  ELSE (IF row.Year # 0 THEN numText(row.Year) ELSE <<>>) \o <<"-", "0", "1">>

\* r.Week_Start || wk
dateKeyOf(row, west) ==
  IF row.Week_Start # <<>> THEN row.Week_Start ELSE toWeekKey(row, west)

hasNullRow(rows) == \E i \in 1..Len(rows) : rows[i].isNull

RECURSIVE weeklyLoop(_, _, _, _, _, _)
\* The loop of weeklyPersonSeries (lines 134-140) from row i on; acc holds the
\* two Maps.
weeklyLoop(rows, pf, west, i, map, weeks) ==
  IF i > Len(rows) THEN [map |-> map, weeks |-> weeks]
  ELSE IF rows[i].Person # pf THEN weeklyLoop(rows, pf, west, i + 1, map, weeks)
  ELSE LET wk == toWeekKey(rows[i], west)
       IN  weeklyLoop(rows, pf, west, i + 1,
                      kvSet(map, wk, kvGet(map, wk, 0) + NumberOr0(rows[i].Total)),
                      kvSet(weeks, wk, dateKeyOf(rows[i], west)))

\* weeklyPersonSeries (lines 131-144): null without a person filter.
weeklyPersonSeries(coll, pf, west) ==
  IF pf = "" THEN Returned([none |-> TRUE, entries |-> <<>>])
  ELSE IF hasNullRow(orEmpty(coll)) THEN Raised
  ELSE LET acc == weeklyLoop(orEmpty(coll), pf, west, 1, <<>>, <<>>)
           items == [i \in 1..Len(acc.map) |->
                         [wk |-> acc.map[i].k, total |-> acc.map[i].v,
                          dateKey |-> kvGet(acc.weeks, acc.map[i].k, <<>>)]]
           keys == textRanks([i \in 1..Len(items) |-> items[i].dateKey])
       IN  Returned([none |-> FALSE, entries |-> sortedBy(items, keys)])

RECURSIVE projectLoop(_, _, _, _, _, _)
\* The loop of weeklyByPersonForProject (lines 151-159) from row i on.
projectLoop(rows, prf, west, i, byPersonMap, allWeeks) ==
  IF i > Len(rows) THEN [byPersonMap |-> byPersonMap, allWeeks |-> allWeeks]
  ELSE IF rows[i].Project # prf
  THEN projectLoop(rows, prf, west, i + 1, byPersonMap, allWeeks)
  ELSE LET wk == toWeekKey(rows[i], west)
           ws == dateKeyOf(rows[i], west)
           p == IF rows[i].Person # "" THEN rows[i].Person ELSE Sentinel
           m == kvGet(byPersonMap, p, <<>>)
       IN  projectLoop(rows, prf, west, i + 1,
                       kvSet(byPersonMap, p,
                             kvSet(m, wk, kvGet(m, wk, 0) + NumberOr0(rows[i].Total))),
                       IF \E j \in 1..Len(allWeeks) : allWeeks[j] = ws THEN allWeeks
                       ELSE Append(allWeeks, ws))

RECURSIVE firstIncluded(_, _, _)
\* The loop of line 172: the value of the first key of m whose week part
\* occurs in ws, 0 when there is none.
firstIncluded(m, ws, i) ==
  IF i > Len(m) THEN 0
  ELSE IF includes(ws, afterDashW(m[i].k)) THEN m[i].v
  ELSE firstIncluded(m, ws, i + 1)

\* The series value of lines 171-174.
seriesValue(m, ws) ==
  LET val == firstIncluded(m, ws, 1)
  IN  IF val = 0 /\ kvHas(m, ws) THEN kvGet(m, ws, 0) ELSE val

\* weeklyByPersonForProject (lines 147-179)
weeklyByPersonForProject(coll, prf, west) ==
  IF prf = "" THEN Returned(<<>>)
  ELSE IF hasNullRow(orEmpty(coll)) THEN Raised
  ELSE LET acc == projectLoop(orEmpty(coll), prf, west, 1, <<>>, <<>>)
           weeksSorted == sortedBy(acc.allWeeks, textRanks(acc.allWeeks))
           lines == [i \in 1..Len(acc.byPersonMap) |->
                        LET series == [n \in 1..Len(weeksSorted) |->
                                         seriesValue(acc.byPersonMap[i].v, weeksSorted[n])]
                        IN  [person |-> acc.byPersonMap[i].k, series |-> series,
                             total |-> SumSeq(series), weeksLabels |-> weeksSorted]]
       IN  Returned(sortedBy(lines, [i \in 1..Len(lines) |-> 0 - lines[i].total]))

RECURSIVE monthLoop(_, _, _, _, _)
\* The loop of monthlyProportion (lines 185-192) from row i on.
monthLoop(rows, west, i, monthTotals, monthProject) ==
  IF i > Len(rows) THEN [monthTotals |-> monthTotals, monthProject |-> monthProject]
  ELSE LET mk == toMonthKey(rows[i], west)
           pt == NumberOr0(rows[i].Total)
           mp == kvGet(monthProject, mk, <<>>)
           name == IF rows[i].Project # "" THEN rows[i].Project ELSE Sentinel
       IN  monthLoop(rows, west, i + 1,
                     kvSet(monthTotals, mk, kvGet(monthTotals, mk, 0) + pt),
                     kvSet(monthProject, mk, kvSet(mp, name, kvGet(mp, name, 0) + pt)))

monthlyProportionUnsorted(coll, west) ==
  IF hasNullRow(orEmpty(coll)) THEN Raised
  ELSE LET acc == monthLoop(orEmpty(coll), west, 1, <<>>, <<>>)
           keys == [i \in 1..Len(acc.monthTotals) |-> acc.monthTotals[i].k]
           months == keys
       IN  Returned([n \in 1..Len(months) |->
             LET total == kvGet(acc.monthTotals, months[n], 0)
                 mp == kvGet(acc.monthProject, months[n], <<>>)
                 projs == [i \in 1..Len(mp) |->
                             [name |-> mp[i].k, hours |-> mp[i].v,
                              pct |-> pct(mp[i].v, total)]]
             IN  [month |-> months[n], total |-> total,
                  projects |-> sortedBy(projs, [i \in 1..Len(projs) |-> 0 - projs[i].hours])]])

\* monthlyProportion (lines 182-203): r.Total of a null row raises.
monthlyProportion(coll, west) ==
  IF hasNullRow(orEmpty(coll)) THEN Raised
  ELSE LET acc == monthLoop(orEmpty(coll), west, 1, <<>>, <<>>)
           keys == [i \in 1..Len(acc.monthTotals) |-> acc.monthTotals[i].k]
           months == sortedBy(keys, textRanks(keys))
       IN  Returned([n \in 1..Len(months) |->
             LET total == kvGet(acc.monthTotals, months[n], 0)
                 mp == kvGet(acc.monthProject, months[n], <<>>)
                 projs == [i \in 1..Len(mp) |->
                             [name |-> mp[i].k, hours |-> mp[i].v,
                              pct |-> pct(mp[i].v, total)]]
             IN  [month |-> months[n], total |-> total,
                  projects |-> sortedBy(projs, [i \in 1..Len(projs) |-> 0 - projs[i].hours])]])

byTotalAscending(list) == sortedBy(list, [i \in 1..Len(list) |-> list[i].total])

\* .sort((a, b) => b.total - a.total) of lines 104, 108 and 112.
byTotalDescending(list) == sortedBy(list, [i \in 1..Len(list) |-> 0 - list[i].total])

\* What one computation of the dashboard gives.
dashboardOf(coll, pf, prf, west) ==
  [filtered |-> filteredDb(coll, pf, prf),
   byKey |-> IF filteredDb(coll, pf, prf).raised THEN Raised
             ELSE Returned([k \in GroupKeys |->
                              byTotalDescending(
                                groupTotals([isNull |-> FALSE,
                                             rows |-> valueOf(filteredDb(coll, pf, prf))], k))]),
   groups |-> IF filteredDb(coll, pf, prf).raised THEN Raised
              ELSE Returned([k \in GroupKeys |->
                               groupTotals([isNull |-> FALSE,
                                            rows |-> valueOf(filteredDb(coll, pf, prf))], k)]),
   weeklyPersonSeries |-> weeklyPersonSeries(coll, pf, west),
   weeklyByPersonForProject |-> weeklyByPersonForProject(coll, prf, west),
   monthlyProportion |-> monthlyProportion(coll, west)]

noOutput ==
  [filtered |-> Raised, groups |-> Raised, byKey |-> Raised, weeklyPersonSeries |-> Raised,
   weeklyByPersonForProject |-> Raised, monthlyProportion |-> Raised]

renderDashboardInPlace ==
  /\ renders < MaxRenders
  /\ renders' = renders + 1
  /\ out' = dashboardOf(dashDb, personFilter, projectFilter, tzWest)
  /\ out1' = IF renders = 0 THEN out' ELSE out1
  /\ dashDb' = [dashDb EXCEPT !.rows =
                  sortedBy(@, [i \in 1..Len(@) |-> 0 - NumberOr0(@[i].Total)])]
  /\ UNCHANGED <<personFilter, projectFilter, tzWest>>
  /\ UNCHANGED <<entries, toast, appVars, capVars, ops, dirVars>>

\* The dashboard computes (a render): its memos are evaluated from the props
\* and the filters; nothing is written to the collection.
renderDashboard ==
  /\ renders < MaxRenders
  /\ renders' = renders + 1
  /\ out' = dashboardOf(dashDb, personFilter, projectFilter, tzWest)
  /\ out1' = IF renders = 0 THEN out' ELSE out1
  /\ UNCHANGED <<dashDb, personFilter, projectFilter, tzWest>>
  /\ UNCHANGED <<entries, toast, appVars, capVars, ops, dirVars>>

DashIdle ==
  /\ dashDb = [isNull |-> FALSE, rows |-> <<>>]
  /\ personFilter = "" /\ projectFilter = "" /\ tzWest = FALSE
  /\ renders = 0 /\ out = noOutput /\ out1 = noOutput

\* ------------------------------------------------------------ specifications
AppInit ==
  /\ entries = <<blankEntry(<<>>)>>
  /\ toast = ""
  /\ configured \in BOOLEAN
  /\ person = People[1]
  /\ selectedYear \in Years
  /\ selectedWeek = Today.week
  /\ db = <<>>
  /\ remote = {}
  /\ saving = FALSE
  /\ loadingWeek = FALSE
  /\ previewPage = 1
  /\ editingId = <<>>
  /\ editingValues = <<>>
  /\ net = {}
  /\ clock = 0

\* The lists hold their defaults and the timesheet view is shown
\* (TimesheetApp.jsx 119-121, 143); the remote lookup tables hold the same names.
DirIdle ==
  /\ people = People /\ projects = Projects /\ bus = Bus
  /\ view = "timesheet"
  /\ lookup = [t \in Tables |->
                 LET names == IF t = "people" THEN People
                              ELSE IF t = "projects" THEN Projects ELSE Bus
                 IN  {item(i, names[i]) : i \in 1..Len(names)}]
  /\ directory = noLists
  /\ dirLoading = FALSE
  /\ dirToast = ""

OtherIdle == DirIdle /\ DashIdle

\* An object without any of the day fields.
noDays == [d \in DaySet \cup {"Sat", "Sun"} |-> Missing]

SumIdle == sumEntry = noDays /\ sumRes = 0 /\ sumDone = FALSE

CapIdle ==
  /\ capO = 0 /\ capT = 0 /\ capC = 0 /\ capRes = 0 /\ capDone = FALSE
  /\ SumIdle

Init == AppInit /\ CapIdle /\ OtherIdle /\ ops = 0

\* What the user may type into a weekday cell of the staging table in Spec.
AppTexts == {Blank, Str(16), Str(30)}
AppDays == {"Mon", "Fri"}

staging(A) == A /\ UNCHANGED <<appVars, capVars>>

step(bound) == ops < bound /\ ops' = ops + 1

\* One run of a handler of the timesheet view.
appStep(bound) == step(bound) /\ UNCHANGED otherVars

Next ==
  \/ appStep(MaxOps) /\ \E id \in UsedIds(entries), d \in AppDays, v \in AppTexts :
                        staging(updateEntry(id, d, v))
  \/ appStep(MaxOps) /\ staging(addRow)
  \/ appStep(MaxOps) /\ \E id \in UsedIds(entries), ok \in BOOLEAN : staging(removeRow(id, ok))
  \/ appStep(MaxOps) /\ \E id \in UsedIds(entries) : staging(duplicateRow(id))
  \/ appStep(MaxOps) /\ staging(clearEntries)
  \/ appStep(MaxOps) /\ staging(toastTimeout)
  \/ appStep(MaxOps) /\ appendToDatabase
  \/ appStep(MaxOps) /\ upsertDone
  \/ appStep(MaxOps) /\ upsertFailed
  \/ appStep(MaxOps) /\ loadWeekButton
  \/ appStep(MaxOps) /\ loadYear
  \/ appStep(MaxOps) /\ loadDone
  \/ appStep(MaxOps) /\ loadFailed
  \/ appStep(MaxOps) /\ \E id \in dbIDs : deleteDbRow(id)
  \/ appStep(MaxOps) /\ deleteDone
  \/ appStep(MaxOps) /\ deleteFailed
  \/ appStep(MaxOps) /\ clearDb
  \/ appStep(MaxOps) /\ \E i \in 1..Len(db) : startEditRow(i)
  \/ appStep(MaxOps) /\ cancelEditRow
  \/ appStep(MaxOps) /\ \E d \in EditDays, v \in EditTexts : changeEditing(d, v)
  \/ appStep(MaxOps) /\ saveEditRow
  \/ appStep(MaxOps) /\ saveEditDone
  \/ appStep(MaxOps) /\ saveEditFailed
  \/ appStep(MaxOps) /\ \E p \in SeqToSet(People) : setPerson(p)
  \/ appStep(MaxOps) /\ \E w \in Weeks : setSelectedWeek(w)
  \/ appStep(MaxOps) /\ \E y \in Years : setSelectedYear(y)
  \/ appStep(MaxOps) /\ \E tape \in DemoTapes : generateDemoData(tape)

Spec == Init /\ [][Next]_vars

\* The staging area alone, every weekday cell editable.
StagingInit ==
  /\ AppInit /\ configured = FALSE
  /\ CapIdle /\ OtherIdle /\ ops = 0

StagingNext ==
  \/ appStep(MaxStagingOps) /\ \E id \in UsedIds(entries), d \in DaySet, v \in StageTexts :
                               staging(updateEntry(id, d, v))
  \/ appStep(MaxStagingOps) /\ \E id \in UsedIds(entries), p \in SeqToSet(Projects) :
                               staging(updateEntryField(id, "project", p))
  \/ appStep(MaxStagingOps) /\ staging(addRow)
  \/ appStep(MaxStagingOps) /\ \E id \in UsedIds(entries), ok \in BOOLEAN :
                               staging(removeRow(id, ok))
  \/ appStep(MaxStagingOps) /\ \E id \in UsedIds(entries) : staging(duplicateRow(id))
  \/ appStep(MaxStagingOps) /\ staging(clearEntries)
  \/ appStep(MaxStagingOps) /\ staging(toastTimeout)

SpecStaging == StagingInit /\ [][StagingNext]_vars

\* The directory next to the timesheet: a row is staged and committed, lookup
\* entries are deleted, the week is loaded again.
DirInit ==
  /\ AppInit /\ configured = TRUE
  /\ CapIdle /\ OtherIdle /\ ops = 0

timesheetView(A) == view = "timesheet" /\ A /\ UNCHANGED otherVars

DirNext ==
  \/ step(MaxDirOps) /\ \E id \in UsedIds(entries) :
                           timesheetView(staging(updateEntry(id, "Mon", Str(16))))
  \/ step(MaxDirOps) /\ timesheetView(appendToDatabase)
  \/ step(MaxDirOps) /\ UNCHANGED otherVars /\ upsertDone
  \/ step(MaxDirOps) /\ timesheetView(loadWeekButton)
  \/ step(MaxDirOps) /\ UNCHANGED otherVars /\ loadDone
  \/ step(MaxDirOps) /\ openDirectory
  \/ step(MaxDirOps) /\ closeDirectory
  \/ step(MaxDirOps) /\ loadAllDone
  \/ step(MaxDirOps) /\ loadAllFailed
  \/ step(MaxDirOps) /\ \E t \in Tables : \E it \in SeqToSet(directory[t]) : deleteItem(t, it)
  \/ step(MaxDirOps) /\ deleteItemDone
  \/ step(MaxDirOps) /\ deleteItemFailed
  \/ step(MaxDirOps) /\ loadListsDone
  \/ step(MaxDirOps) /\ loadListsFailed

SpecDirectory == DirInit /\ [][DirNext]_vars

\* The dashboard over a collection drawn from the bounded rows.
\* The Mondays of ISO weeks 2025-W11, 2025-W01 and 2024-W01.
w2025w11 == dateText(2025, 3, 10)
w2025w01 == dateText(2024, 12, 30)
w2024w01 == dateText(2024, 1, 1)

a8 == dashRow("A", "P", "BU", 2025, 11, w2025w11, Num(8))
a2 == dashRow("A", "Q", "BU", 2025, 1, w2025w01, Num(2))
b5 == dashRow("B", "P", "BU", 2025, 11, w2025w11, Num(5))
\* A row of no hours, its Week_Start missing.
b0 == dashRow("B", "Q", "BU", 2025, 11, <<>>, Num(0))
a23 == dashRow("A", "P", "BU", 2024, 1, w2024w01, Num(23))
a17 == dashRow("A", "Q", "BU", 2024, 1, w2024w01, Num(17))
\* A row with every field missing or malformed.
bare == dashRow("", "", "", 0, 0, <<"x">>, Junk)

DashRowSet == {a8, a2, b5, b0, a23, a17, bare, NullRow}

DashInit ==
  /\ AppInit /\ configured = FALSE /\ CapIdle /\ DirIdle /\ ops = 0
  /\ dashDb \in {[isNull |-> TRUE, rows |-> <<>>]}
                 \cup {[isNull |-> FALSE, rows |-> rows] :
                         rows \in UNION {[1..n -> DashRowSet] : n \in 0..MaxDashRows}}
  /\ personFilter \in {"", "A"}
  /\ projectFilter \in {"", "P"}
  /\ tzWest \in BOOLEAN
  /\ renders = 0 /\ out = noOutput /\ out1 = noOutput

SpecDash == DashInit /\ [][renderDashboard]_vars

\* One application of allowedAfterCap to inputs drawn from the bounded sets.
CapInit ==
  /\ AppInit /\ configured = FALSE /\ OtherIdle /\ ops = 0
  /\ capO \in 0..MaxOther
  /\ capT \in 0..MaxOther
  /\ capC \in (-MaxNeg)..MaxCand
  /\ capRes = 0
  /\ capDone = FALSE
  /\ SumIdle

applyCap ==
  /\ ~capDone
  /\ capRes' = allowedAfterCap(capO, capT, capC)
  /\ capDone' = TRUE
  /\ UNCHANGED <<entries, toast, appVars, capO, capT, capC, sumVars, ops, otherVars>>

SpecCap == CapInit /\ [][applyCap]_vars

\* One application of sumWeek to an object whose Mon..Fri fields are drawn from
\* SumCells; Sat and Sun are both absent or both hold 5.
SumCells == {Blank, Junk, Missing, Str(2), Num(8)} \cup {Num(n) : n \in 0..MaxCellHours}

SumInit ==
  /\ AppInit /\ configured = FALSE /\ OtherIdle /\ ops = 0
  /\ capO = 0 /\ capT = 0 /\ capC = 0 /\ capRes = 0 /\ capDone = FALSE
  /\ \E week \in [DaySet -> SumCells], weekend \in {Missing, Num(5)} :
       sumEntry = [d \in DaySet \cup {"Sat", "Sun"} |->
                     IF d \in DaySet THEN week[d] ELSE weekend]
  /\ sumRes = 0
  /\ sumDone = FALSE

applySumWeek ==
  /\ ~sumDone
  /\ sumRes' = sumWeek(sumEntry)
  /\ sumDone' = TRUE
  /\ UNCHANGED <<entries, toast, appVars, capO, capT, capC, capRes, capDone, sumEntry,
                 ops, otherVars>>

SpecSumWeek == SumInit /\ [][applySumWeek]_vars

\* Loading a week: the remote table holds rows of several weeks, years and
\* people, the durable collection is empty or holds a row the table has not,
\* and the preview is on its first or second page.
committedRow(idx, year, isoWeek, p, createdAt) ==
  stagedRow([blankEntry(<<>>) EXCEPT !.Mon = Num(8)], idx, year, isoWeek, p, createdAt)

RemoteRows ==
  {tableRow(mapToSupabase(committedRow(1, 2025, 11, "A", 1))),
   tableRow(mapToSupabase(committedRow(1, 2025, 2, "A", 2))),
   tableRow(mapToSupabase(committedRow(1, 2025, 11, "B", 3))),
   tableRow(mapToSupabase(committedRow(1, 2024, 11, "A", 4)))}

LoadInit ==
  /\ entries = <<blankEntry(<<>>)>>
  /\ toast = ""
  /\ configured \in BOOLEAN
  /\ person = People[1]
  /\ selectedYear \in Years
  /\ selectedWeek \in Weeks
  /\ db \in {<<>>, <<committedRow(2, 2025, 11, "B", 5)>>}
  /\ remote \in (IF configured THEN SUBSET RemoteRows ELSE {{}})
  /\ saving = FALSE
  /\ loadingWeek = FALSE
  /\ previewPage \in {1, 2}
  /\ editingId = <<>>
  /\ editingValues = <<>>
  /\ net = {}
  /\ clock = 5
  /\ CapIdle /\ OtherIdle /\ ops = 0

LoadNext ==
  \/ appStep(MaxLoadOps) /\ loadWeekButton
  \/ appStep(MaxLoadOps) /\ ~configured /\ loadFromSupabaseForWeek
  \/ appStep(MaxLoadOps) /\ loadDone
  \/ appStep(MaxLoadOps) /\ loadFailed
  \/ appStep(MaxLoadOps) /\ \E w \in Weeks : setSelectedWeek(w)
  \/ appStep(MaxLoadOps) /\ staging(toastTimeout)

SpecLoad == LoadInit /\ [][LoadNext]_vars

\* A commit during a load: the user has clicked the load-week or the load-year
\* button, the request is in flight, and from then on stages, commits, deletes
\* and clears, but starts no other load and no demo generation.
RaceInit ==
  /\ entries = <<blankEntry(<<>>)>>
  /\ toast = ""
  /\ configured = TRUE
  /\ person = People[1]
  /\ selectedYear \in Years
  /\ selectedWeek = Today.week
  /\ db = <<>>
  /\ remote \in {{}, RemoteRows}
  /\ saving = FALSE
  /\ loadingWeek = TRUE
  /\ previewPage = 1
  /\ editingId = <<>>
  /\ editingValues = <<>>
  /\ net \in {{loadWeekReq(selectedYear, selectedWeek)}, {loadYearReq}}
  /\ clock = 5
  /\ CapIdle /\ OtherIdle /\ ops = 0

RaceNext ==
  \/ appStep(MaxRaceOps) /\ \E id \in UsedIds(entries), d \in AppDays, v \in AppTexts :
                            staging(updateEntry(id, d, v))
  \/ appStep(MaxRaceOps) /\ staging(toastTimeout)
  \/ appStep(MaxRaceOps) /\ appendToDatabase
  \/ appStep(MaxRaceOps) /\ upsertDone
  \/ appStep(MaxRaceOps) /\ upsertFailed
  \/ appStep(MaxRaceOps) /\ loadDone
  \/ appStep(MaxRaceOps) /\ loadFailed
  \/ appStep(MaxRaceOps) /\ \E id \in dbIDs : deleteDbRow(id)
  \/ appStep(MaxRaceOps) /\ deleteDone
  \/ appStep(MaxRaceOps) /\ deleteFailed
  \/ appStep(MaxRaceOps) /\ clearDb

SpecRace == RaceInit /\ [][RaceNext]_vars

\* The busy flags: the user stages, commits and loads at most MaxLiveOps times;
\* the remote calls return when they return, and every call does return
\* (the awaits of lines 395-397, 413-418 and 657-662 resolve or reject).
LiveInit ==
  /\ AppInit /\ configured = TRUE
  /\ CapIdle /\ OtherIdle /\ ops = 0

\* The continuation of a handler after its await: not a user action.
returns(A) == A /\ UNCHANGED <<ops, otherVars>>

LiveNext ==
  \/ appStep(MaxLiveOps) /\ \E id \in UsedIds(entries), d \in AppDays, v \in AppTexts :
                            staging(updateEntry(id, d, v))
  \/ appStep(MaxLiveOps) /\ appendToDatabase
  \/ appStep(MaxLiveOps) /\ loadWeekButton
  \/ appStep(MaxLiveOps) /\ loadYear
  \/ appStep(MaxLiveOps) /\ \E w \in Weeks : setSelectedWeek(w)
  \/ returns(upsertDone)
  \/ returns(upsertFailed)
  \/ returns(loadDone)
  \/ returns(loadFailed)

SpecLive ==
  /\ LiveInit /\ [][LiveNext]_vars
  /\ WF_vars(returns(upsertDone \/ upsertFailed))
  /\ WF_vars(returns(loadDone \/ loadFailed))

\* ================================================================== claims

\* C1: after any sequence of staging operations from a single blank row, the
\* Mon..Fri hours of all staged rows sum to at most 40.
C1_StagedTotalAtMost40 == totalWeekHours(entries) <= WeekCap

\* C2 as stated: the result of allowedAfterCap lies in
\* [0, min(24, 40 - otherRowsTotal - thisRowOtherDaysTotal)] when that upper
\* bound is non-negative, and is 0 otherwise.
C2_ResultWithinDayAndWeek ==
  capDone =>
    LET upper == Min(DayMax, WeekCap - capO - capT)
    IN  IF upper >= 0 THEN capRes \in 0..upper ELSE capRes = 0

\* C2 amended: the result of allowedAfterCap lies in
\* [0, max(0, 40 - otherRowsTotal - thisRowOtherDaysTotal)], and is at most 24
\* whenever the candidate is at most 24 (the function applies no daily ceiling).
C2_ResultWithinWeek ==
  capDone =>
    /\ capRes >= 0
    /\ capRes <= (IF WeekCap - capO - capT >= 0 THEN WeekCap - capO - capT ELSE 0)
    /\ capC <= DayMax => capRes <= DayMax

\* An application to a candidate above 24 whose result is above 24.
C2_Witness == capDone /\ capC > DayMax /\ capRes > DayMax /\ capRes <= WeekCap - capO - capT

\* C3: allowedAfterCap(o, t, c) = min(max(0, 40 - (o + t)), max(0, c)); in
\* particular allowedAfterCap(30, 5, 10) = 5 and allowedAfterCap(0, 0, -2) = 0.
C3_CapFormula ==
  capDone =>
    /\ capRes = (IF capC <= 0 \/ capO + capT >= WeekCap THEN 0
                 ELSE IF capC <= WeekCap - (capO + capT) THEN capC
                 ELSE WeekCap - (capO + capT))
    /\ (capO = 30 /\ capT = 5 /\ capC = 10) => capRes = 5
    /\ (capO = 0 /\ capT = 0 /\ capC = -2) => capRes = 0

\* The self-test's case: 30 and 5 hours used, 10 asked, 5 granted.
C3_Witness == capDone /\ capO = 30 /\ capT = 5 /\ capC = 10 /\ capRes = 5

\* The sum of a row's five weekday cells, each read as a number.
WeekdaySum(r) ==
  NumberOr0(r.Mon) + NumberOr0(r.Tue) + NumberOr0(r.Wed) + NumberOr0(r.Thu)
    + NumberOr0(r.Fri)

\* C4: for every row of the durable collection, Total = Mon + Tue + Wed + Thu + Fri.
C4_TotalIsWeekdaySum == \A i \in 1..Len(db) : db[i].Total = WeekdaySum(db[i])

RECURSIVE PersonWeekTotal(_, _, _, _, _)
PersonWeekTotal(rows, i, p, year, isoWeek) ==
  IF i > Len(rows) THEN 0
  ELSE (IF rows[i].Person = p /\ rows[i].Year = year /\ rows[i].ISO_Week = isoWeek
        THEN rows[i].Total ELSE 0)
       + PersonWeekTotal(rows, i + 1, p, year, isoWeek)

\* C5: immediately after any appendToDatabase, the Total of the rows of the
\* durable collection for the committed person, year and ISO week sum to at
\* most 40.
C5_CommittedWeekAtMost40 ==
  [][appendToDatabase =>
       PersonWeekTotal(db', 1, person, selectedYear, selectedWeek) <= WeekCap]_vars

\* The positions of the staged rows whose weekday sum is greater than 0.
PositiveRows == {idx \in 1..Len(entries) : sumWeek(entries[idx]) > 0}

\* C6: appendToDatabase appends to the durable collection, and sends to the
\* remote table, exactly the staged rows whose weekday sum is greater than 0.
C6_CommitsExactlyPositiveRows ==
  [][appendToDatabase =>
       LET added == SubSeq(db', Len(db) + 1, Len(db'))
       IN  /\ SubSeq(db', 1, Len(db)) = db
           /\ Len(added) = Cardinality(PositiveRows)
           /\ \A idx \in PositiveRows : \E j \in 1..Len(added) :
                /\ added[j].ID = rowID(selectedYear, selectedWeek, person, idx)
                /\ added[j].Mon = Num(NumberOr0(entries[idx].Mon))
                /\ added[j].Tue = Num(NumberOr0(entries[idx].Tue))
                /\ added[j].Wed = Num(NumberOr0(entries[idx].Wed))
                /\ added[j].Thu = Num(NumberOr0(entries[idx].Thu))
                /\ added[j].Fri = Num(NumberOr0(entries[idx].Fri))
                /\ added[j].Project = entries[idx].project
                /\ added[j].Person = person
           /\ \A j \in 1..Len(added) : added[j].ID[4] \in PositiveRows
           /\ IF configured /\ added # <<>>
              THEN \E req \in net' \ net :
                     /\ net' = net \cup {req}
                     /\ req.op = "upsert"
                     /\ Len(req.rows) = Len(added)
                     /\ \A j \in 1..Len(added) :
                          /\ req.rows[j].id = added[j].ID
                          /\ req.rows[j].mon = added[j].Mon
                          /\ req.rows[j].tue = added[j].Tue
                          /\ req.rows[j].wed = added[j].Wed
                          /\ req.rows[j].thu = added[j].Thu
                          /\ req.rows[j].fri = added[j].Fri
              ELSE net' = net]_vars

\* A commit of two staged rows, the first without hours: only the second is in
\* the durable collection.
C6_Witness ==
  /\ Len(entries) = 2 /\ sumWeek(entries[1]) = 0 /\ sumWeek(entries[2]) > 0
  /\ Len(db) = 1
  /\ db[1].ID = rowID(selectedYear, selectedWeek, person, 2)
  /\ db[1].Total = sumWeek(entries[2])

\* C7: every row of the durable collection has Mon..Fri each an integer in
\* [0,24] and Sat = Sun = 0.
C7_HoursInRange ==
  \A i \in 1..Len(db) :
    /\ \A d \in DaySet : NumberOr0(db[i][d]) \in 0..DayMax
    /\ NumberOr0(db[i].Sat) = 0 /\ NumberOr0(db[i].Sun) = 0

\* C8: there is at most one row with a given ID, in the remote table and in
\* the durable collection alike: a commit of an ID already committed
\* overwrites the earlier row.
C8_OneRowPerId ==
  /\ \A r, q \in remote : r.id = q.id => r = q
  /\ \A i, j \in 1..Len(db) : db[i].ID = db[j].ID => i = j

\* The number the user asked for in a weekday cell.
Requested(v) == v.n

\* C9 as stated: whenever updateEntry stores in a weekday cell a value lower
\* than the value the user requested, the weekly-cap notice is shown.
C9_NoticeWheneverLowered ==
  [][\A i \in 1..Len(entries), d \in DaySet, v \in StageTexts :
       (/\ v.k = "str"
        /\ Len(entries') = Len(entries)
        /\ entries'[i][d].n < Requested(v)
        /\ updateEntry(entries[i].id, d, v))
       => toast' = "cap"]_vars

\* C9 amended: whenever updateEntry stores in a weekday cell a value lower than
\* the requested value clamped to [0,24], that is whenever the 40-hour rule
\* lowers it, the weekly-cap notice is shown and the cell holds what is left of
\* the 40 hours (0 when nothing is left): the edit is applied, not rejected.
C9_NoticeWhenCapLowers ==
  [][\A i \in 1..Len(entries), d \in DaySet, v \in StageTexts :
       (/\ v.k = "str"
        /\ Len(entries') = Len(entries)
        /\ entries'[i][d].n < Max(0, Min(DayMax, Requested(v)))
        /\ updateEntry(entries[i].id, d, v))
       => /\ toast' = "cap"
          /\ LET others == totalWeekHours(entries) - NumberOr0(entries[i][d])
             IN  entries'[i][d] = Num(IF others >= WeekCap THEN 0 ELSE WeekCap - others)]_vars

\* The notice is up and a cell holds 8, which nobody typed: 32 hours were
\* staged and the 40-hour rule lowered the edit to the 8 left.
C9_Witness ==
  /\ toast = "cap"
  /\ totalWeekHours(entries) = WeekCap
  /\ \E i \in 1..Len(entries), d \in DaySet : entries[i][d] = Num(8)

\* The rows of the durable collection for one person and week, each weekday
\* cell read as a number.
RECURSIVE PersonWeekHours(_, _, _, _, _)
PersonWeekHours(rows, i, p, year, isoWeek) ==
  IF i > Len(rows) THEN 0
  ELSE (IF rows[i].Person = p /\ rows[i].Year = year /\ rows[i].ISO_Week = isoWeek
        THEN WeekdaySum(rows[i]) ELSE 0)
       + PersonWeekHours(rows, i + 1, p, year, isoWeek)

\* What a completed saveEditRow must have done to the durable collection for
\* the edited id and the edited values.
EditApplied(id, values) ==
  /\ Len(db') = Len(db)
  /\ \A i \in 1..Len(db) :
       IF db[i].ID = id
       THEN \A d \in DaySet : db'[i][d] = values[d]
       ELSE db'[i] = db[i]

\* C10: saveEditRow applies an edit to a committed row without any 40-hour
\* check: the row's weekday values become exactly the edited values, and no
\* row with a different ID is changed.
C10_EditAppliedUnchecked ==
  [][/\ (saveEditRow /\ ~configured) => EditApplied(editingId[1], editingValues[1])
     /\ saveEditDone => \A req \in net \ net' : EditApplied(req.id, req.row[1])]_vars

\* A saved edit (a weekday cell holding the typed text) that leaves its person
\* with more than 40 hours in the week.
C10_Witness ==
  \E i \in 1..Len(db) :
    /\ \E d \in DaySet : db[i][d].k = "str"
    /\ PersonWeekHours(db, 1, db[i].Person, db[i].Year, db[i].ISO_Week) > WeekCap


\* C11: when the remote call of deleteDbRow, saveEditRow, loadFromSupabaseForWeek
\* or the load-year action fails, the step that handles the failure leaves the
\* durable collection as it was, shows the action's failure notice, and leaves
\* no busy flag set by the action (loadingWeek is cleared after a load; the
\* other two set no flag and change none).
FailureNotices == {"loadFailed", "loadYearFailed", "removeFailed", "updateFailed"}

C11_FailureKeepsDb ==
  [][(loadFailed \/ deleteFailed \/ saveEditFailed) =>
       /\ db' = db
       /\ remote' = remote
       /\ toast' \in FailureNotices
       /\ saving' = saving
       /\ (loadFailed => ~loadingWeek')
       /\ (~loadFailed => loadingWeek' = loadingWeek)
       /\ InFlight("loadWeek")' \cup InFlight("loadYear")' = {} => ~loadingWeek']_vars

\* A load has failed over a non-empty durable collection.
C11_Witness ==
  /\ toast \in {"loadFailed", "loadYearFailed"}
  /\ db # <<>>
  /\ ~loadingWeek
  /\ InFlight("loadWeek") \cup InFlight("loadYear") = {}


\* C12: deleting a person, project or business unit in the directory changes
\* only that lookup table: a step that changes a lookup table, a list of the
\* directory or a list of the timesheet view leaves every row of the durable
\* collection, of the remote timesheet table and of the staging area as it was
\* (Person, Project and Business_Unit texts included), and removes rows from one
\* lookup table at most.
C12_DeleteDoesNotCascade ==
  [][(lookup' # lookup \/ directory' # directory \/ people' # people
        \/ projects' # projects \/ bus' # bus) =>
       /\ db' = db
       /\ remote' = remote
       /\ entries' = entries
       /\ \A t \in Tables : lookup'[t] \subseteq lookup[t]
       /\ Cardinality({t \in Tables : lookup'[t] # lookup[t]}) <= 1]_vars

\* A person has been deleted from the lookup table while committed rows, local
\* and remote, carry that person's name.
C12_Witness ==
  \E n \in SeqToSet(People) :
    /\ n \notin {x.name : x \in lookup["people"]}
    /\ \E i \in 1..Len(db) : db[i].Person = n
    /\ \E r \in remote : r.person = n


\* The bucket a row falls in when grouped by key.
bucketOf(r, key) == IF r[key] # "" THEN r[key] ELSE Sentinel

RECURSIVE BucketTotal(_, _, _, _)
\* The sum of Total over the rows from i on that fall in the bucket.
BucketTotal(rows, key, name, i) ==
  IF i > Len(rows) THEN 0
  ELSE (IF bucketOf(rows[i], key) = name THEN NumberOr0(rows[i].Total) ELSE 0)
       + BucketTotal(rows, key, name, i + 1)

\* The values of field among the rows of the bucket.
BucketValues(rows, key, name, field) ==
  {rows[i][field] : i \in {j \in 1..Len(rows) : bucketOf(rows[j], key) = name}} \ {""}

\* The rows groupTotals was given by the last computation.
GroupInput == valueOf(out.filtered)
Groups == valueOf(out.groups)

\* C13: groupTotals(rows, key) returns exactly one bucket per distinct value of
\* the key among the rows (missing and empty values in the sentinel bucket),
\* each with total the sum of Total of its rows, peopleCount the number of
\* distinct Person values and projectsCount the number of distinct Project
\* values in it.
C13_GroupTotals ==
  (renders > 0 /\ ~out.groups.raised) =>
    \A key \in GroupKeys :
      LET g == Groups[key]
      IN  /\ {g[i].name : i \in 1..Len(g)}
               = {bucketOf(GroupInput[j], key) : j \in 1..Len(GroupInput)}
          /\ \A i, j \in 1..Len(g) : g[i].name = g[j].name => i = j
          /\ \A i \in 1..Len(g) :
               /\ g[i].total = BucketTotal(GroupInput, key, g[i].name, 1)
               /\ g[i].peopleCount
                    = Cardinality(BucketValues(GroupInput, key, g[i].name, "Person"))
               /\ g[i].projectsCount
                    = Cardinality(BucketValues(GroupInput, key, g[i].name, "Project"))

\* Rows A:8, A:2, B:5 grouped by person give A = 10 and B = 5, one person each.
C13_Witness ==
  /\ renders > 0 /\ ~out.groups.raised
  /\ dashDb.rows = <<a8, a2, b5>>
  /\ personFilter = "" /\ projectFilter = ""
  /\ Groups["Person"]
       = <<[name |-> "A", total |-> 10, peopleCount |-> 1, projectsCount |-> 2],
           [name |-> "B", total |-> 5, peopleCount |-> 1, projectsCount |-> 1]>>


\* The rows of no hours among rows.
ZeroRows(rows) == {i \in 1..Len(rows) : ~rows[i].isNull /\ NumberOr0(rows[i].Total) = 0}

\* C14: a row whose Total is 0 is dropped by no aggregation: groupTotals has
\* its bucket, with its Person and Project among those counted, the monthly
\* proportion has its project in its month, the weekly series of its person
\* has its week and the series of its project has its person.
C14_ZeroRowsSurface ==
  renders > 0 =>
    /\ ~out.groups.raised =>
         \A i \in ZeroRows(GroupInput), key \in GroupKeys :
           \E n \in 1..Len(Groups[key]) :
             LET b == Groups[key][n]
                 others == {j \in 1..Len(GroupInput) :
                              j # i /\ bucketOf(GroupInput[j], key) = b.name}
             IN  /\ b.name = bucketOf(GroupInput[i], key)
                 /\ b.peopleCount
                      = Cardinality(({GroupInput[j].Person : j \in others}
                                       \cup {GroupInput[i].Person}) \ {""})
                 /\ b.projectsCount
                      = Cardinality(({GroupInput[j].Project : j \in others}
                                       \cup {GroupInput[i].Project}) \ {""})
    /\ ~out.monthlyProportion.raised =>
         \A i \in ZeroRows(orEmpty(dashDb)) :
           \E n \in 1..Len(valueOf(out.monthlyProportion)) :
             LET mo == valueOf(out.monthlyProportion)[n]
             IN  /\ mo.month = toMonthKey(orEmpty(dashDb)[i], tzWest)
                 /\ \E k \in 1..Len(mo.projects) :
                      mo.projects[k].name = bucketOf(orEmpty(dashDb)[i], "Project")
    /\ (~out.weeklyPersonSeries.raised /\ personFilter # "") =>
         \A i \in ZeroRows(orEmpty(dashDb)) :
           orEmpty(dashDb)[i].Person = personFilter =>
             \E n \in 1..Len(valueOf(out.weeklyPersonSeries).entries) :
               valueOf(out.weeklyPersonSeries).entries[n].wk
                 = toWeekKey(orEmpty(dashDb)[i], tzWest)
    /\ (~out.weeklyByPersonForProject.raised /\ projectFilter # "") =>
         \A i \in ZeroRows(orEmpty(dashDb)) :
           orEmpty(dashDb)[i].Project = projectFilter =>
             \E n \in 1..Len(valueOf(out.weeklyByPersonForProject)) :
               valueOf(out.weeklyByPersonForProject)[n].person
                 = bucketOf(orEmpty(dashDb)[i], "Person")

\* A row of no hours is the only row of its person and of its project.
C14_Witness ==
  /\ renders > 0 /\ ~out.groups.raised /\ ~out.monthlyProportion.raised
  /\ dashDb.rows = <<a8, b0>>
  /\ personFilter = "" /\ projectFilter = ""
  /\ Groups["Person"][2] = [name |-> "B", total |-> 0, peopleCount |-> 1, projectsCount |-> 1]
  /\ Groups["Project"][2] = [name |-> "Q", total |-> 0, peopleCount |-> 1, projectsCount |-> 1]
  /\ Groups["Business_Unit"][1].peopleCount = 2


RECURSIVE MonthHours(_, _, _, _)
\* The sum of Total over the rows from i on of the month, of one project when
\* name is given (<<name>>), of all when it is not (<<>>).
MonthHours(rows, month, name, i) ==
  IF i > Len(rows) THEN 0
  ELSE (IF /\ toMonthKey(rows[i], tzWest) = month
           /\ (name # <<>> => bucketOf(rows[i], "Project") = name[1])
        THEN NumberOr0(rows[i].Total) ELSE 0)
       + MonthHours(rows, month, name, i + 1)

\* C15: in the monthly proportion every project entry of a month has
\* pct = round(hours / monthTotal * 100), halves rounded up, and 0 when
\* monthTotal is 0, monthTotal being the sum of Total of the rows of the month
\* and hours the sum for the project.
C15_PctRounded ==
  (renders > 0 /\ ~out.monthlyProportion.raised) =>
    \A n \in 1..Len(valueOf(out.monthlyProportion)) :
      LET mo == valueOf(out.monthlyProportion)[n]
      IN  /\ mo.total = MonthHours(orEmpty(dashDb), mo.month, <<>>, 1)
          /\ \A k \in 1..Len(mo.projects) :
               /\ mo.projects[k].hours
                    = MonthHours(orEmpty(dashDb), mo.month, <<mo.projects[k].name>>, 1)
               /\ mo.projects[k].pct
                    = IF mo.total = 0 THEN 0
                      ELSE (200 * mo.projects[k].hours + mo.total) \div (2 * mo.total)


\* The rows of the selected person, and the ISO weeks they are in.
PersonRows == {i \in 1..Len(orEmpty(dashDb)) : orEmpty(dashDb)[i].Person = personFilter}
PersonWeeks == {<<orEmpty(dashDb)[i].Year, orEmpty(dashDb)[i].ISO_Week>> : i \in PersonRows}

RECURSIVE RowsTotal(_, _)
\* The sum of Total over the rows of the collection at the positions of set.
RowsTotal(set, i) ==
  IF i > Len(orEmpty(dashDb)) THEN 0
  ELSE (IF i \in set THEN NumberOr0(orEmpty(dashDb)[i].Total) ELSE 0) + RowsTotal(set, i + 1)

\* C16: for the selected person the weekly series has exactly one entry per
\* distinct ISO week (Year, ISO_Week) in which the person has rows, each with
\* total the sum of Total of the person's rows of that week, in ascending
\* order of the weeks' start dates.
C16_WeeklySeries ==
  (renders > 0 /\ personFilter # "" /\ ~out.weeklyPersonSeries.raised) =>
    LET series == valueOf(out.weeklyPersonSeries).entries
    IN  /\ Len(series) = Cardinality(PersonWeeks)
        /\ \A w \in PersonWeeks :
             \E n \in 1..Len(series) :
               series[n].total
                 = RowsTotal({i \in PersonRows : orEmpty(dashDb)[i].Year = w[1]
                                                /\ orEmpty(dashDb)[i].ISO_Week = w[2]}, 1)
        /\ \A n, m \in 1..Len(series) :
             n < m => ~textLess(series[m].dateKey, series[n].dateKey)

\* The rows of the selected project.
ProjectRows == {i \in 1..Len(orEmpty(dashDb)) : orEmpty(dashDb)[i].Project = projectFilter}

\* C17: for the selected project, for every person with matching rows and
\* every week present for the project, the person's series value of the week is
\* the sum of Total of the person's rows for the project in that week (0 when
\* none), and the person's total the sum of Total of all their rows for it.
C17_SeriesByPerson ==
  (renders > 0 /\ projectFilter # "" /\ ~out.weeklyByPersonForProject.raised) =>
    \A n \in 1..Len(valueOf(out.weeklyByPersonForProject)) :
      LET line == valueOf(out.weeklyByPersonForProject)[n]
          mine == {i \in ProjectRows : bucketOf(orEmpty(dashDb)[i], "Person") = line.person}
      IN  /\ line.total = RowsTotal(mine, 1)
          /\ \A k \in 1..Len(line.weeksLabels) :
               line.series[k]
                 = RowsTotal({i \in mine : dateKeyOf(orEmpty(dashDb)[i], tzWest)
                                             = line.weeksLabels[k]}, 1)

C19_NeverRaises ==
  renders > 0 =>
    /\ ~out.filtered.raised => ~out.groups.raised
    /\ ~out.weeklyPersonSeries.raised
    /\ ~out.weeklyByPersonForProject.raised
    /\ ~out.monthlyProportion.raised

\* C20: sumWeek(entry) is the sum of the entry's Mon, Tue, Wed, Thu and Fri values,
\* a blank, missing or non-numeric cell counting as 0, whatever Sat and Sun
\* hold: five cells of 8 give 40, and blank, 2, 0, 3, 1 give 6.
cellValue(v) == IF v \in {Blank, Junk, Missing} THEN 0 ELSE v.n
C20_SumWeek ==
  sumDone =>
    /\ sumRes = cellValue(sumEntry.Mon) + cellValue(sumEntry.Tue) + cellValue(sumEntry.Wed)
                 + cellValue(sumEntry.Thu) + cellValue(sumEntry.Fri)
    /\ (\A d \in DaySet : sumEntry[d] = Num(8)) => sumRes = 40
    /\ (/\ sumEntry.Mon = Blank /\ sumEntry.Tue = Num(2) /\ sumEntry.Wed = Num(0)
        /\ sumEntry.Thu = Num(3) /\ sumEntry.Fri = Num(1)) => sumRes = 6
C20_Witness ==
  /\ sumDone
  /\ sumEntry.Mon = Blank /\ sumEntry.Tue = Num(2) /\ sumEntry.Wed = Num(0)
  /\ sumEntry.Thu = Num(3) /\ sumEntry.Fri = Num(1)
  /\ sumEntry.Sat = Num(5) /\ sumEntry.Sun = Num(5)
  /\ sumRes = 6

\* The hours of all staged weekday cells but cell d of row i.
UsedElsewhere(i, d) == totalWeekHours(entries) - NumberOr0(entries[i][d])

\* C21: updateEntry on a weekday cell with a numeric input n stores
\* min(max(0, 40 - used), min(24, max(0, n))), used being the sum of all other
\* staged weekday cells, so the stored value is at most 24 and at most what is
\* left of the 40 hours; a non-numeric non-empty input is stored as 0 and an
\* empty input as blank.
C21_StoredValue ==
  [][\A i \in 1..Len(entries), d \in DaySet, v \in StageTexts :
       updateEntry(entries[i].id, d, v)
       => LET used == UsedElsewhere(i, d)
              left == IF used >= WeekCap THEN 0 ELSE WeekCap - used
              n == IF v.n < 0 THEN 0 ELSE IF v.n > DayMax THEN DayMax ELSE v.n
          IN  /\ v.k = "str" => /\ entries'[i][d] = Num(IF left < n THEN left ELSE n)
                                /\ entries'[i][d].n <= DayMax
                                /\ entries'[i][d].n <= left
              /\ v = Junk => entries'[i][d] = Num(0)
              /\ v = Blank => entries'[i][d] = Blank]_vars

\* 30 was typed twice in one row: the first cell holds 24 (the ceiling of a
\* day), the second the 16 hours left of the week.
C21_Witness ==
  /\ toast = "cap"
  /\ \E i \in 1..Len(entries), d, f \in DaySet :
       d # f /\ entries[i][d] = Num(24) /\ entries[i][f] = Num(16)

\* C22: the value updateEntry stores for a numeric weekday edit is
\* allowedAfterCap(otherRowsTotal, thisOtherDays, c), c the input clamped to
\* [0,24], otherRowsTotal the weekday hours of all other staged rows and
\* thisOtherDays the other four weekday cells of the edited row.
C22_InlineCapIsAllowedAfterCap ==
  [][\A i \in 1..Len(entries), d \in DaySet, v \in StageTexts :
       (v.k = "str" /\ updateEntry(entries[i].id, d, v))
       => LET c == Max(0, Min(DayMax, v.n))
              otherRowsTotal == totalWeekHours(SelectSeq(entries, LAMBDA r : r.id # entries[i].id))
              thisOtherDays == sumWeek(entries[i]) - NumberOr0(entries[i][d])
          IN  entries'[i][d] = Num(allowedAfterCap(otherRowsTotal, thisOtherDays, c))]_vars

\* Two rows: 24 hours in the first, and 30 typed in the second gave the 16 left.
C22_Witness ==
  /\ Len(entries) = 2
  /\ toast = "cap"
  /\ sumWeek(entries[1]) = 24
  /\ \E d \in DaySet : entries[2][d] = Num(16)

\* The notices of a failed remote call.
RemoteFailureNotices ==
  {"saveFailed", "loadFailed", "loadYearFailed", "removeFailed", "updateFailed"}

\* C23: a commit, a week load, a year load, an edit save and a row delete each
\* send their remote request at most once: a step puts at most one request in
\* flight and only when the user acts; the step of a failure shows a failure
\* notice, ends the request and sends no other.
C23_SingleAttempt ==
  [][/\ Cardinality(net' \ net) <= 1
     /\ net' \ net # {} =>
          \/ appendToDatabase \/ loadWeekButton \/ loadYear \/ saveEditRow
          \/ \E id \in dbIDs : deleteDbRow(id)
     /\ (upsertFailed \/ loadFailed \/ deleteFailed \/ saveEditFailed) =>
          /\ toast' \in RemoteFailureNotices
          /\ net' \subseteq net /\ net' # net]_vars

\* A commit's upsert has failed: the notice is up and nothing is in flight.
C23_Witness ==
  /\ toast = "saveFailed"
  /\ net = {}
  /\ ~saving
  /\ db # <<>>

\* The rows of the remote table for a year and a week.
RemoteWeek(year, isoWeek) == {r \in remote : r.year = year /\ r.iso_week = isoWeek}

\* C24: a successful loadFromSupabaseForWeek replaces the durable collection
\* with exactly the remote rows whose year and iso_week are the year and week
\* selected when it was called, whatever the collection held, and puts the
\* preview on page 1; without a remote store it changes nothing and only shows
\* a notice.
C24_LoadWeekReplaces ==
  [][/\ (configured /\ loadFromSupabaseForWeek) =>
          /\ loadWeekReq(selectedYear, selectedWeek) \in net'
          /\ net' \ net \subseteq {loadWeekReq(selectedYear, selectedWeek)}
     /\ \A req \in InFlight("loadWeek") :
          (net' = net \ {req} /\ toast' = "loaded") =>
            /\ Len(db') = Cardinality(RemoteWeek(req.year, req.week))
            /\ \A r \in RemoteWeek(req.year, req.week) :
                 \E i \in 1..Len(db') :
                   /\ db'[i].ID = r.id /\ db'[i].Year = r.year
                   /\ db'[i].ISO_Week = r.iso_week /\ db'[i].Person = r.person
                   /\ db'[i].Project = r.project /\ db'[i].Mon = Num(r.mon)
                   /\ db'[i].Total = r.total
            /\ previewPage' = 1
     /\ (~configured /\ loadFromSupabaseForWeek) =>
          /\ toast' = "notConfigured"
          /\ UNCHANGED <<db, remote, net, loadingWeek, previewPage, entries>>]_vars

\* The table holds four rows; the load asked for week 2 before week 11 was
\* selected, and the collection now holds the one row of week 2 of 2025.
C24_Witness ==
  /\ toast = "loaded"
  /\ remote = RemoteRows
  /\ selectedWeek = 11
  /\ Len(db) = 1 /\ db[1].ISO_Week = 2 /\ db[1].Year = 2025
  /\ previewPage = 1
  /\ ~loadingWeek

\* The first row of the grouped rows that falls in the bucket.
FirstRowOf(key, name) ==
  CHOOSE i \in 1..Len(GroupInput) :
    /\ bucketOf(GroupInput[i], key) = name
    /\ \A j \in 1..(i - 1) : bucketOf(GroupInput[j], key) # name

\* C25: groupTotals lists the buckets in the order in which their key values
\* first appear in the rows; the dashboard's totals by person, project and
\* business unit are that list in descending order of total.
C25_GroupOrder ==
  (renders > 0 /\ ~out.groups.raised) =>
    \A key \in GroupKeys :
      LET g == Groups[key]
          s == valueOf(out.byKey)[key]
      IN  /\ \A i, j \in 1..Len(g) :
               i < j => FirstRowOf(key, g[i].name) < FirstRowOf(key, g[j].name)
          /\ ~out.byKey.raised
          /\ Len(s) = Len(g)
          /\ {s[i] : i \in 1..Len(s)} = {g[i] : i \in 1..Len(g)}
          /\ \A i, j \in 1..Len(s) : i < j => s[i].total >= s[j].total

\* Rows B:5, A:8, A:2: by first appearance B comes before A, by total A (10)
\* before B (5).
C25_Witness ==
  /\ renders > 0 /\ ~out.groups.raised
  /\ dashDb.rows = <<b5, a8, a2>>
  /\ personFilter = "" /\ projectFilter = ""
  /\ Groups["Person"][1].name = "B" /\ Groups["Person"][2].name = "A"
  /\ valueOf(out.byKey)["Person"][1].name = "A"
  /\ valueOf(out.byKey)["Person"][2].name = "B"

\* C26: the monthly proportion lists the months in ascending order of month
\* key and, within a month, the projects in descending order of hours; the
\* hours of the projects of a month sum to the month's total.
C26_MonthlyOrder ==
  (renders > 0 /\ ~out.monthlyProportion.raised) =>
    LET months == valueOf(out.monthlyProportion)
    IN  /\ \A n, m \in 1..Len(months) :
             n < m => textLess(months[n].month, months[m].month)
        /\ \A n \in 1..Len(months) :
             LET ps == months[n].projects
             IN  /\ \A i, j \in 1..Len(ps) : i < j => ps[i].hours >= ps[j].hours
                 /\ SumSeq([i \in 1..Len(ps) |-> ps[i].hours]) = months[n].total

\* Rows of March 2025 (P 8) and of January 2024 (Q 17, then P 23): January
\* 2024 comes first, with P before Q and a total of 40.
C26_Witness ==
  /\ renders > 0 /\ ~out.monthlyProportion.raised
  /\ dashDb.rows = <<a8, a17, a23>>
  /\ ~tzWest
  /\ LET months == valueOf(out.monthlyProportion)
     IN  /\ Len(months) = 2
         /\ months[1].month = <<"2", "0", "2", "4", "-", "0", "1">>
         /\ months[1].total = 40
         /\ months[1].projects[1].name = "P" /\ months[1].projects[2].name = "Q"
         /\ months[2].month = <<"2", "0", "2", "5", "-", "0", "3">>

\* C27: rows added to the durable collection by appendToDatabase stay in it
\* until the user deletes them, clears the collection or starts a load or a
\* demo generation after the commit.  Where the only load is the one in flight
\* from the start and no demo is generated, every row of the collection is
\* still in it after every step but a clearing of the collection and the
\* completion of a delete of that row; in particular the completion of the
\* load removes no committed row.
C27_CommittedRowsStay ==
  [][LET gone == dbIDs \ {db'[i].ID : i \in 1..Len(db')}
     IN  \/ gone = {}
         \/ clearDb
         \/ \E req \in InFlight("delete") : net' = net \ {req} /\ gone = {req.id}]_vars

\* The loads in flight.
Loads == InFlight("loadWeek") \cup InFlight("loadYear")

\* C28: saving is true only while a commit's upsert is in flight and
\* loadingWeek only while a week or year load is in flight; while a flag is set
\* no second request of its kind is started; and each flag that is set is
\* eventually reset, whether the call succeeds or fails.
C28_BusyFlags ==
  /\ [](saving => InFlight("upsert") # {})
  /\ [](loadingWeek => Loads # {})
  /\ [][saving => InFlight("upsert")' \subseteq InFlight("upsert")]_vars
  /\ [][loadingWeek => Loads' \subseteq Loads]_vars
  /\ (saving ~> ~saving)
  /\ (loadingWeek ~> ~loadingWeek)

\* Both flags are set, with one upsert and one load in flight.
C28_Witness ==
  /\ saving /\ loadingWeek
  /\ Cardinality(InFlight("upsert")) = 1
  /\ Cardinality(Loads) = 1

\* C29: updateEntry on a weekday cell never raises the staged weekly total
\* above the larger of 40 and the total before the edit; when the other staged
\* cells already sum to 40 or more, the edited cell is set to 0 whatever
\* non-empty value was entered.
C29_EditNeverRaisesAboveCap ==
  [][\A i \in 1..Len(entries), d \in DaySet, v \in StageTexts :
       updateEntry(entries[i].id, d, v)
       => /\ totalWeekHours(entries') <= WeekCap
             \/ totalWeekHours(entries') <= totalWeekHours(entries)
          /\ (UsedElsewhere(i, d) >= WeekCap /\ v # Blank) => entries'[i][d] = Num(0)]_vars

\* A row of 24 hours was duplicated (48 staged); a value typed in another cell
\* was stored as 0 and the notice shown.
C29_Witness ==
  /\ totalWeekHours(entries) = 48
  /\ toast = "cap"
  /\ \E i \in 1..Len(entries), d \in DaySet : entries[i][d] = Num(0)

\* C30: after any sequence of addRow, removeRow, duplicateRow, clearEntries and
\* updateEntry the staging area holds at least one row: removeRow on the only
\* row changes nothing, and clearEntries leaves exactly one blank row.
C30_AtLeastOneRow ==
  /\ [](Len(entries) >= 1)
  /\ [][\A id \in UsedIds(entries), ok \in BOOLEAN :
          (Len(entries) = 1 /\ removeRow(id, ok)) => entries' = entries]_vars
  /\ [][clearEntries =>
          /\ Len(entries') = 1
          /\ \A d \in DaySet : entries'[1][d] = Blank
          /\ entries'[1].notes = ""]_vars

\* A second row was added and the first removed: one row is left, the second.
C30_Witness ==
  /\ Len(entries) = 1
  /\ entries[1].id = 2
  /\ \A d \in DaySet : entries[1][d] = Blank

====
